---- MODULE Spec2Model ----
(***************************************************************************)
(* A model of gitingest: the URL/slug parser, the caller overrides, the    *)
(* ingest_async life cycle with its scratch directory, and the filesystem  *)
(* walker.                                                                 *)
(*                                                                         *)
(* Strings are modelled as sequences of tokens: a source is the sequence   *)
(* of its '/'-separated pieces (an optional scheme token first), a ref     *)
(* name or a subpath is the sequence of its segments.  Python's None and   *)
(* the empty string are both the empty sequence / "" (the code only tests  *)
(* them for truthiness).                                                   *)
(***************************************************************************)
EXTENDS Integers, Sequences, FiniteSets, TLC

\* ------------------------------------------------------------------ bounds
NumRequests == 2

\* ------------------------------------------------------------ vocabulary
NoRef == << >>
NoStr == ""

KNOWN_GIT_HOSTS ==
  << "github.com", "gitlab.com", "bitbucket.org", "gitea.com", "codeberg.org", "gist.github.com" >>

KnownHostSet == { KNOWN_GIT_HOSTS[i] : i \in 1..Len(KNOWN_GIT_HOSTS) }

\* tokens that urlparse() reports as a scheme
SchemeTokens == { "https:", "http:", "ftp:" }

\* host-like tokens used by the inputs (every one of them contains a dot)
HostTokens == KnownHostSet \cup { "git.example.com", "gitlab.example.com", "github.example.com", "example.com" }

ShaA == "4b825dc642cb6eb9a060e54bf8d69288fbee4904"
ShaHead == "deadbeefdeadbeefdeadbeefdeadbeefdeadbeef"
NotHex40 == "zzzzzzzzzzzzzzzzzzzzzzzzzzzzzzzzzzzzzzzz"
ShortHex == "deadbeef"

\* tokens of length 40, and tokens made of hexadecimal digits only
Len40Tokens == { ShaA, ShaHead, NotHex40 }
HexTokens == { ShaA, ShaHead, ShortHex }

\* "." in tok
HasDot(tok) == tok \in HostTokens \cup { "v1.0", ".git" }

\* host.startswith(("git.", "gitlab.", "github."))
_looks_like_git_host(host) ==
  host \in { "git.example.com", "gitlab.example.com", "github.example.com", "github.com" }

\* _validate_host: TRUE iff no ValueError is raised
_validate_host(host) == host \in KnownHostSet \/ _looks_like_git_host(host)

\* _validate_url_scheme: TRUE iff no ValueError is raised
_validate_url_scheme(scheme) == scheme \in { "https:", "http:" }

\* len(commit) == 40 and all(c in HEX_DIGITS for c in commit)
_is_valid_git_commit_hash(commit) == commit \in Len40Tokens /\ commit \in HexTokens

\* s[: -len(suffix)] if s.endswith(suffix) else s   (suffix is one token)
removesuffix(s, suffix) ==
  IF Len(s) > 0 /\ s[Len(s)] = suffix THEN SubSeq(s, 1, Len(s) - 1) ELSE s

Drop(s, n) == SubSeq(s, n + 1, Len(s))

\* urlparse(source).scheme
UrlScheme(source) ==
  IF Len(source) > 0 /\ source[1] \in SchemeTokens THEN source[1] ELSE NoStr

\* urlparse(source).netloc of a source that has a scheme
UrlNetloc(source) == IF Len(source) >= 2 THEN source[2] ELSE NoStr

\* ------------------------------------------------------------ the remote
\* What the remote answers: the names `git ls-remote --tags --refs` and
\* `--heads` list (as segment sequences), whether each listing fails, and the
\* known hosts on which the existence probe of the slug succeeds.
RemoteEnv(tags, branches, tagsFail, branchesFail, existsAt) ==
  [ tags |-> tags, branches |-> branches, tagsFail |-> tagsFail,
    branchesFail |-> branchesFail, existsAt |-> existsAt ]

\* ------------------------------------------------------------ the query
\* IngestionQuery with its defaults; url = << >> is None, subpath = << >> is "/"
IngestionQuery(user, repo, url, local_path, slug, id) ==
  [ user_name |-> user, repo_name |-> repo, url |-> url, local_path |-> local_path,
    slug |-> slug, id |-> id, subpath |-> << >>, type |-> NoStr,
    branch |-> NoRef, commit |-> NoStr, tag |-> NoRef, include_submodules |-> FALSE,
    ignore_patterns |-> {}, include_patterns |-> {} ]

NoQuery == IngestionQuery(NoStr, NoStr, << >>, << >>, << >>, 0)

\* the result of a parse: a query, or the error that was raised
ParseOk(q, warned) == [ ok |-> TRUE, err |-> NoStr, warned |-> warned, query |-> q ]
ParseErr(msg) == [ ok |-> FALSE, err |-> msg, warned |-> FALSE, query |-> NoQuery ]

\* a scratch path that leaves the request id out
ScratchLocalPath_NoId(id, slug) == << slug >>

\* TMP_BASE_PATH / _id / slug, as a path relative to TMP_BASE_PATH
ScratchLocalPath(id, slug) == << id, slug >>

\* _get_user_and_repo_from_path: TRUE iff the path has at least two parts
HasUserAndRepo(parts) == Len(parts) >= 2

\* try_domains_for_user_and_repo: the first known host on which the repo exists, "" if none
try_domains_for_user_and_repo(env) ==
  LET hits == { i \in 1..Len(KNOWN_GIT_HOSTS) : KNOWN_GIT_HOSTS[i] \in env.existsAt }
  IN IF hits = {} THEN NoStr
     ELSE KNOWN_GIT_HOSTS[CHOOSE i \in hits : \A j \in hits : i <= j]

\* _configure_branch_or_tag: the ref found and what is left of remaining_parts.
\* refs is the fetched list, failed says fetch_remote_branches_or_tags raised.
_configure_branch_or_tag(remaining_parts, refs, failed) ==
  IF failed
  THEN IF Len(remaining_parts) > 0
       THEN [ ref |-> << remaining_parts[1] >>, rest |-> Tail(remaining_parts), warned |-> TRUE ]
       ELSE [ ref |-> NoRef, rest |-> remaining_parts, warned |-> TRUE ]
  ELSE LET hits == { k \in 1..Len(remaining_parts) : SubSeq(remaining_parts, 1, k) \in refs }
       IN IF hits = {}
          THEN [ ref |-> NoRef, rest |-> remaining_parts, warned |-> FALSE ]
          ELSE LET k == CHOOSE i \in hits : \A j \in hits : i <= j
               IN [ ref |-> SubSeq(remaining_parts, 1, k), rest |-> Drop(remaining_parts, k),
                    warned |-> FALSE ]

\* lines 155-208 of _parse_remote_repo: kind, ref and subpath from the path
ParseRemaining(parsed, parts, env) ==
  LET remaining0 == Drop(parts, 2)
  IN IF remaining0 = << >> THEN ParseOk(parsed, FALSE)
     ELSE LET possible_type == remaining0[1]
              remaining1 == Tail(remaining0)
          IN IF remaining1 = << >> THEN ParseOk(parsed, FALSE)
             ELSE IF possible_type \in { "issues", "pull" } THEN ParseOk(parsed, TRUE)
             ELSE IF possible_type \notin { "tree", "blob" } THEN ParseOk(parsed, TRUE)
             ELSE IF _is_valid_git_commit_hash(remaining1[1])
                  THEN ParseOk([ parsed EXCEPT !.type = possible_type,
                                               !.commit = remaining1[1],
                                               !.subpath = Tail(remaining1) ], FALSE)
                  ELSE LET t == _configure_branch_or_tag(remaining1, env.tags, env.tagsFail)
                           b == IF t.ref = NoRef
                                THEN _configure_branch_or_tag(t.rest, env.branches, env.branchesFail)
                                ELSE [ ref |-> NoRef, rest |-> t.rest, warned |-> FALSE ]
                       IN ParseOk([ parsed EXCEPT !.type = possible_type,
                                                  !.tag = t.ref,
                                                  !.branch = b.ref,
                                                  !.subpath = IF t.ref # NoRef \/ b.ref # NoRef
                                                              THEN b.rest ELSE << >> ],
                                  t.warned \/ b.warned)

\* lines 138-153 of _parse_remote_repo, then the rest: full is << host, user, repo, ... >>
ParseHostAndPath(full, env, newId) ==
  LET host == full[1]
      parts == Tail(full)
  IN IF ~HasUserAndRepo(parts) THEN ParseErr("Invalid repository URL")
     ELSE LET slug == << parts[1], parts[2] >>
              parsed == IngestionQuery(parts[1], parts[2], << host, parts[1], parts[2] >>,
                                       ScratchLocalPath(newId, slug), slug, newId)
          IN ParseRemaining(parsed, parts, env)

\* _parse_remote_repo(source): newId is the value uuid.uuid4() returns
_parse_remote_repo(source, env, newId) ==
  IF UrlScheme(source) # NoStr
  THEN IF ~_validate_url_scheme(UrlScheme(source)) THEN ParseErr("Invalid URL scheme")
       ELSE IF ~_validate_host(UrlNetloc(source)) THEN ParseErr("Unknown domain")
       ELSE ParseHostAndPath(Tail(source), env, newId)
  ELSE IF Len(source) > 0 /\ HasDot(source[1])
       THEN IF ~_validate_host(source[1]) THEN ParseErr("Unknown domain")
            ELSE ParseHostAndPath(source, env, newId)
       ELSE IF ~HasUserAndRepo(source) THEN ParseErr("Invalid repository URL")
            ELSE IF try_domains_for_user_and_repo(env) = NoStr
                 THEN ParseErr("Could not find a valid repository host")
                 ELSE ParseHostAndPath(<< try_domains_for_user_and_repo(env) >> \o source, env, newId)

\* _parse_local_dir_path: a query with only local_path, slug and id (0 = not under TMP_BASE_PATH)
_parse_local_dir_path(source, newId) ==
  IngestionQuery(NoStr, NoStr, << >>, << 0, source >>, source, newId)

\* ------------------------------------------------------------ pattern sets
\* A pattern string is one token.  A raw argument string may hold several
\* patterns separated by commas or white space.

\* a part of DEFAULT_IGNORE_PATTERNS
DEFAULT_IGNORE_PATTERNS == { "*.pyc", "poetry.lock" }

\* _PATTERN_SPLIT_RE.split(pat.strip()), without the empty parts
SplitParts(raw) ==
  CASE raw = "" -> {}
    [] raw = " , " -> {}
    [] raw = "*.py, docs/*" -> { "*.py", "docs/*" }
    [] raw = "*.py;rm -rf" -> { "*.py;rm", "-rf" }
    [] OTHER -> { raw }

\* part.replace("\\", "/")
NormaliseSlashes(part) == IF part = "src\\*.py" THEN "src/*.py" ELSE part

\* the pattern, split and with its slashes normalised, has a character outside
\* [A-Za-z0-9_./+*@!-]
HasInvalidCharacter(part) == part \in { "*.py;rm", "a$b" }

\* pattern_utils._parse_patterns: patterns is an iterable of raw strings
_parse_patterns(patterns) ==
  { NormaliseSlashes(part) : part \in UNION { SplitParts(raw) : raw \in patterns } }

\* process_patterns: {} stands for None and for the empty set (both are falsy)
process_patterns(exclude_patterns, include_patterns) ==
  LET ignore_patterns_set == DEFAULT_IGNORE_PATTERNS \cup _parse_patterns(exclude_patterns)
      parsed_include == _parse_patterns(include_patterns)
  IN [ ignore_patterns |-> ignore_patterns_set \ parsed_include,
       include_patterns |-> parsed_include ]

\* an ignore file: the directory it lies in, relative to the root ("" for the
\* root itself), and its lines
IgnoreFile(dir, file_lines) == [ dir |-> dir, lines |-> file_lines ]

\* raw.strip()
StripLine(raw) == IF raw = " *.log " THEN "*.log" ELSE raw

\* line.startswith("!")
Negated(line) == line \in { "!keep.txt", "!/keep.txt" }

\* the line without "!" and without leading slashes
PatternBody(line) ==
  CASE line \in { "!keep.txt", "!/keep.txt" } -> "keep.txt"
    [] line = "/build" -> "build"
    [] OTHER -> line

\* (base_dir / line).as_posix()
JoinDir(dir, body) ==
  CASE dir = "" -> body
    [] dir = "docs" /\ body = "keep.txt" -> "docs/keep.txt"
    [] dir = "docs" /\ body = "build" -> "docs/build"
    [] dir = "docs" /\ body = "*.py" -> "docs/*.py"
    [] dir = "docs" /\ body = "*.log" -> "docs/*.log"
    [] OTHER -> body

\* f"!{pattern_body}"
Negate(body) ==
  CASE body = "keep.txt" -> "!keep.txt"
    [] body = "docs/keep.txt" -> "!docs/keep.txt"
    [] OTHER -> body

\* _parse_ignore_file: blank lines and comments are skipped
_parse_ignore_file(ignore_file) ==
  { IF Negated(StripLine(raw))
    THEN Negate(JoinDir(ignore_file.dir, PatternBody(StripLine(raw))))
    ELSE JoinDir(ignore_file.dir, PatternBody(StripLine(raw))) :
    raw \in { l \in ignore_file.lines : StripLine(l) \notin { "", "# build output" } } }

\* load_ignore_patterns(root, filename): files is the set of the files of that
\* name under root
load_ignore_patterns(files) == UNION { _parse_ignore_file(file) : file \in files }

\* _apply_gitignores: tree is [ gitignore, gitingestignore ], the ignore files
\* of each name in the work tree
_apply_gitignores(q, tree) ==
  [ q EXCEPT !.ignore_patterns =
      (@ \cup load_ignore_patterns(tree.gitignore)) \cup load_ignore_patterns(tree.gitingestignore) ]

\* the pattern arguments of ingest_async
PatternArgs(exclude, include, include_gitignored) ==
  [ exclude_patterns |-> exclude, include_patterns |-> include,
    include_gitignored |-> include_gitignored ]

NoPatterns == PatternArgs({}, {}, FALSE)

\* the ignore files of a work tree, by file name
IgnoreFiles(gitignore, gitingestignore) ==
  [ gitignore |-> gitignore, gitingestignore |-> gitingestignore ]

\* ------------------------------------------------------------ overrides
\* the override without its last two lines ("tag wins over branch")
_override_branch_and_tag_NoClear(query, branch, tag) ==
  LET q1 == [ query EXCEPT !.tag = IF tag # NoRef THEN tag ELSE query.tag ]
  IN [ q1 EXCEPT !.branch = IF branch # NoRef THEN branch ELSE q1.branch ]

\* _override_branch_and_tag(query, branch, tag)
_override_branch_and_tag(query, branch, tag) ==
  LET q1 == [ query EXCEPT !.tag = IF tag # NoRef THEN tag ELSE query.tag ]
      q2 == [ q1 EXCEPT !.branch = IF branch # NoRef THEN branch ELSE q1.branch ]
  IN IF q2.tag # NoRef THEN [ q2 EXCEPT !.branch = NoRef ] ELSE q2


\* ------------------------------------------------------------ state
Requests == 1..NumRequests

\* the values uuid.uuid4() can return; a value is never returned twice
Ids == 1..NumRequests

\* uuid.uuid4() in request r: a value no other request gets. Ids are only
\* compared for equality, so the request's own number stands for any of them.
uuid4(r) == r

VARIABLES
  remote,      \* what the remote answers (RemoteEnv)
  pc,          \* pc[r]: where request r stands in ingest_async
  src,         \* src[r]: the source argument
  argBranch,   \* argBranch[r], argTag[r]: the caller's branch and tag arguments
  argTag,
  argPatterns, \* argPatterns[r]: exclude_patterns, include_patterns, include_gitignored
  route,       \* route[r]: "remote" or "local", the parser the source was handed to
  query,       \* query[r]: the IngestionQuery
  warned,      \* warned[r]: a warning was issued while parsing
  err,         \* err[r]: the exception in flight or raised to the caller, "" if none
  fs,          \* the paths that exist under TMP_BASE_PATH
  usedIds,     \* the ids uuid4 has returned so far
  commit,      \* commit[r]: the SHA clone_repo resolved and checks out, "" before
  wt,          \* the working tree ingest_query walks: type and size of each path
  wq,          \* the walked query: max_file_size, ignore_patterns, include_patterns
  stack,       \* the active calls of _process_node, innermost first
  root_node,   \* the root FileSystemNode the last finished walk returned
  stats,       \* FileSystemStats
  phase,       \* "idle", "start", "walking" or "done"
  prev,        \* the tree an earlier walk of the same working tree returned
  lines,       \* the lines of one `git ls-remote` reply handed to the resolver
  sha,         \* what the resolver made of them: a SHA, "not found", or "pending"
  gitenv,      \* the host, the git command that fails, and what the library masks
  tok,         \* tok[k]: the token of run k of clone_repo, "" if none
  tpc,         \* tpc[k]: where run k stands in clone_repo
  msg,         \* msg[k]: the message of the exception run k raised, << >> if none
  issued,      \* issued[k]: the git steps run k has issued so far, in order
  srv,         \* the request process_query serves: inputs, position, query, outcome
  folders,     \* folders[f]: the entry f of the temp root: there or not, ctime, its *.txt
  history,     \* the lines of history.txt
  clock,       \* time.time()
  scan         \* the cleanup worker: position, its `now`, the entries of its loop

reqVars == << remote, pc, src, argBranch, argTag, argPatterns, route, query, warned, err, fs, usedIds, commit >>
walkVars == << wt, wq, stack, root_node, stats, phase, prev >>
resVars == << lines, sha >>
tokVars == << gitenv, tok, tpc, msg, issued >>
gcVars == << folders, history, clock, scan >>
auxVars == << resVars, tokVars, srv, gcVars >>
vars == << reqVars, walkVars, auxVars >>

ClonePcs == { "clone_mkdir", "clone_probe", "clone_resolve", "clone_git", "clone_post" }
BodyPcs == { "gitignores", "ingest", "write" }
DonePcs == { "returned", "raised" }

\* errors raised by clone_repo after the scratch parent directory was created
CloneErrors == { "RepoNotFound", "RefNotFound", "CloneFailed", "GitOperationFailed", "TimedOut", "CancelledInClone" }
\* errors raised inside the `async with` body
BodyErrors == { "IgnoreFileError", "WalkError", "WriteError", "CancelledInBody" }

\* query.local_path.parent, the directory _clone_repo_if_remote removes
ScratchDir(q) == SubSeq(q.local_path, 1, Len(q.local_path) - 1)

IsPrefix(p, path) == Len(p) <= Len(path) /\ SubSeq(path, 1, Len(p)) = p

\* the paths of fs at or below directory d
Under(d, paths) == { p \in paths : IsPrefix(d, p) }

\* how an entry answers os.unlink / os.rmdir during shutil.rmtree:
\*   writable  - removed at once
\*   readonly  - EACCES/EPERM, removable after chmod(S_IWRITE)
\*   denied    - EACCES/EPERM, and again after chmod
\*   busy      - an OSError other than EACCES/EPERM
Perms == { "writable", "readonly", "denied", "busy" }

\* _handle_remove_readonly: TRUE iff the retried removal succeeds (no exception leaves the handler)
_handle_remove_readonly(p) == p = "readonly"

\* shutil.rmtree(dir, onerror=_handle_remove_readonly) on a tree whose checkout answers p:
\* the paths left behind, and whether an exception was raised
rmtree(dir, p, paths, keepSibling) ==
  IF p = "writable" \/ _handle_remove_readonly(p)
  THEN [ raised |-> FALSE, paths |-> paths \ Under(dir, paths) ]
  ELSE [ raised |-> TRUE,
         paths |-> { q \in paths : ~IsPrefix(dir, q) \/ Len(q) <= Len(dir) + 1
                                   \/ q[Len(q)] = ".git" \/ keepSibling } ]

Set(f, r, v) == [ f EXCEPT ![r] = v ]

\* ------------------------------------------------------------ ingest_async
\* lines 93-96: strip ".git", choose the parser
LooksRemoteToCode(source) ==
  \/ UrlScheme(source) \in { "https:", "http:" }
  \/ \E i \in 1..Len(source) : source[i] \in KnownHostSet

Dispatch(r, Sources, RefArgs, PatArgs) ==
  /\ pc[r] = "idle"
  /\ \E s \in Sources, b \in RefArgs, t \in RefArgs :
       /\ src' = Set(src, r, s)
       /\ argBranch' = Set(argBranch, r, b)
       /\ argTag' = Set(argTag, r, t)
       /\ \E p \in PatArgs : argPatterns' = Set(argPatterns, r, p)
       /\ LET source == removesuffix(s, ".git")
          IN IF LooksRemoteToCode(source)
             THEN route' = Set(route, r, "remote") /\ pc' = Set(pc, r, "parse_remote")
             ELSE route' = Set(route, r, "local") /\ pc' = Set(pc, r, "parse_local")
  /\ UNCHANGED << remote, query, warned, err, fs, usedIds, commit, walkVars, auxVars >>

\* lines 99-101: parse_remote_repo, include_submodules, first override
ParseRemote(r) ==
  /\ pc[r] = "parse_remote"
  /\ uuid4(r) \in Ids \ usedIds
  /\ LET newId == uuid4(r)
     IN
       LET res == _parse_remote_repo(removesuffix(src[r], ".git"), remote, newId)
       IN /\ usedIds' = IF res.ok THEN usedIds \cup { newId } ELSE usedIds
          /\ IF res.ok
             THEN /\ query' = Set(query, r, _override_branch_and_tag(res.query, argBranch[r], argTag[r]))
                  /\ warned' = Set(warned, r, res.warned)
                  /\ pc' = Set(pc, r, "configure")
                  /\ err' = err
             ELSE /\ err' = Set(err, r, res.err)
                  /\ pc' = Set(pc, r, "raised")
                  /\ UNCHANGED << query, warned >>
  /\ UNCHANGED << remote, src, argBranch, argTag, argPatterns, route, fs, commit, walkVars, auxVars >>

\* line 106: parse_local_dir_path
ParseLocal(r) ==
  /\ pc[r] = "parse_local"
  /\ uuid4(r) \in Ids \ usedIds
  /\ LET newId == uuid4(r)
     IN
       /\ usedIds' = usedIds \cup { newId }
       /\ query' = Set(query, r, _parse_local_dir_path(removesuffix(src[r], ".git"), newId))
  /\ pc' = Set(pc, r, "configure")
  /\ UNCHANGED << remote, src, argBranch, argTag, argPatterns, route, warned, err, fs, commit, walkVars, auxVars >>

\* lines 108-117: size cap, patterns, second override for a remote query
Configure(r) ==
  /\ pc[r] = "configure"
  /\ LET merged == process_patterns(argPatterns[r].exclude_patterns, argPatterns[r].include_patterns)
         q == [ query[r] EXCEPT !.ignore_patterns = merged.ignore_patterns,
                                !.include_patterns = merged.include_patterns ]
     IN query' = Set(query, r, IF q.url # << >>
                               THEN _override_branch_and_tag(q, argBranch[r], argTag[r])
                               ELSE q)
  /\ pc' = Set(pc, r, IF query[r].url # << >> THEN "clone_mkdir" ELSE "gitignores")
  /\ UNCHANGED << remote, src, argBranch, argTag, argPatterns, route, warned, err, fs, usedIds, commit, walkVars, auxVars >>


\* ------------------------------------------------------------ the resolver
\* one line of a `git ls-remote` reply: blank, or "<sha> <ref>" with the ref
\* peeled (ending in "^{}") or not
BlankLine == [ blank |-> TRUE, sha |-> NoStr, peeled |-> FALSE ]
RefLine(s, peeled) == [ blank |-> FALSE, sha |-> s, peeled |-> peeled ]

\* a resolver that takes the first non-blank line, peeled or not
_pick_commit_sha_FirstLine(ls) ==
  LET nonblank == { i \in 1..Len(ls) : ~ls[i].blank }
  IN IF nonblank = {} THEN NoStr
     ELSE ls[CHOOSE i \in nonblank : \A j \in nonblank : i <= j].sha

\* _pick_commit_sha: the loop returns at the first peeled line; when it runs to
\* the end, the first non-blank line it remembered, "" for None
_pick_commit_sha(ls) ==
  LET peeled == { i \in 1..Len(ls) : ~ls[i].blank /\ ls[i].peeled }
      nonblank == { i \in 1..Len(ls) : ~ls[i].blank }
  IN IF peeled # {} THEN ls[CHOOSE i \in peeled : \A j \in peeled : i <= j].sha
     ELSE IF nonblank # {} THEN ls[CHOOSE i \in nonblank : \A j \in nonblank : i <= j].sha
     ELSE NoStr

\* the names of the remote's refs: what each points to
BranchSha(name) ==
  CASE name = << "main" >> -> ShaHead
    [] name = << "feature" >> -> "sha of refs/heads/feature"
    [] name = << "feature", "fix1" >> -> "sha of refs/heads/feature/fix1"
    [] name = << "fix1" >> -> "sha of refs/heads/fix1"
    [] OTHER -> "sha of another branch"

\* the object refs/tags/<name> names: the tag object of an annotated tag, else the commit
TagSha(name) ==
  CASE name = << "v1" >> -> "sha of tag object v1"
    [] name = << "v10" >> -> "sha of refs/tags/v10"
    [] name = << "feature" >> -> "sha of refs/tags/feature"
    [] name = << "feature-2" >> -> "sha of tag object feature-2"
    [] OTHER -> "sha of another tag"

\* the commit an annotated tag peels to
PeeledSha(name) ==
  CASE name = << "v1" >> -> "sha of refs/tags/v1^{}"
    [] name = << "feature-2" >> -> "sha of refs/tags/feature-2^{}"
    [] OTHER -> "sha of another peeled tag"

AnnotatedTags == { << "v1" >>, << "feature-2" >> }

\* the tag names of the inputs in the order ls-remote lists refs
TagOrder == << << "feature" >>, << "feature-2" >>, << "v1" >>, << "v10" >> >>

\* name.startswith(prefix) for ref names as strings: what the pattern
\* refs/tags/<prefix>* matches
NameStartsWith(name, prefix) ==
  \/ name = prefix
  \/ << prefix, name >> \in { << << "v1" >>, << "v10" >> >>, << << "feature" >>, << "feature-2" >> >>,
                               << << "v" >>, << "v1" >> >>, << << "v" >>, << "v10" >> >> }

RECURSIVE TagLines(_, _, _)
\* the reply to `ls-remote <url> refs/tags/<tag>*`: every matching tag in ref
\* order, an annotated tag followed by its peeled line
TagLines(env, tag, i) ==
  IF i > Len(TagOrder) THEN << >>
  ELSE LET t == TagOrder[i]
       IN (IF t \in env.tags /\ NameStartsWith(t, tag)
           THEN << RefLine(TagSha(t), FALSE) >>
                \o (IF t \in AnnotatedTags THEN << RefLine(PeeledSha(t), TRUE) >> ELSE << >>)
           ELSE << >>)
          \o TagLines(env, tag, i + 1)

\* git_cmd.ls_remote(auth_url, pattern).splitlines()
ls_remote(env, kind, name) ==
  CASE kind = "HEAD" -> << RefLine(ShaHead, FALSE) >>
    [] kind = "heads" -> IF name \in env.branches THEN << RefLine(BranchSha(name), FALSE) >> ELSE << >>
    [] kind = "tags" -> TagLines(env, name, 1)

\* git ls-remote itself fails (GitCommandError)
LsRemoteFails(env, kind) ==
  \/ kind = "tags" /\ env.tagsFail
  \/ kind = "heads" /\ env.branchesFail

\* _resolve_ref_to_sha: the SHA, or "" when ValueError is raised
_resolve_ref_to_sha(env, kind, name) ==
  IF LsRemoteFails(env, kind) THEN NoStr ELSE _pick_commit_sha(ls_remote(env, kind, name))

\* resolve_commit(config): config is query.extract_clone_config()
resolve_commit(q, env) ==
  IF q.commit # NoStr THEN q.commit
  ELSE IF q.tag # NoRef THEN _resolve_ref_to_sha(env, "tags", q.tag)
  ELSE IF q.branch # NoRef THEN _resolve_ref_to_sha(env, "heads", q.branch)
  ELSE _resolve_ref_to_sha(env, "HEAD", NoRef)

\* ------------------------------------------------------------ clone_repo
\* resolve_commit raises nothing
RefResolves(q, env) == resolve_commit(q, env) # NoStr

\* check_repo_exists(url): HEAD resolves on the url's host
check_repo_exists(q, env) == q.url[1] \in env.existsAt

\* lines 73-77: ensure_git_installed, then mkdir -p of local_path.parent
CloneMkdir(r) ==
  /\ pc[r] = "clone_mkdir"
  /\ \/ /\ fs' = fs \cup { ScratchDir(query[r]) }
        /\ pc' = Set(pc, r, "clone_probe")
        /\ err' = err
     \/ /\ err' = Set(err, r, "GitNotInstalled")
        /\ pc' = Set(pc, r, "raised")
        /\ fs' = fs
  /\ UNCHANGED << remote, src, argBranch, argTag, argPatterns, route, query, warned, usedIds, commit, walkVars, auxVars >>

\* where clone_repo's exception leaves ingest_async: `await clone_repo` stands
\* before the try/finally of _clone_repo_if_remote
OnCloneError(q) == "raised"

\* lines 79-83: the existence probe
CloneProbe(r) ==
  /\ pc[r] = "clone_probe"
  /\ IF check_repo_exists(query[r], remote)
     THEN pc' = Set(pc, r, "clone_resolve") /\ err' = err
     ELSE pc' = Set(pc, r, OnCloneError(query[r])) /\ err' = Set(err, r, "RepoNotFound")
  /\ UNCHANGED << remote, src, argBranch, argTag, argPatterns, route, query, warned, fs, usedIds, commit, walkVars, auxVars >>

\* lines 85-87: resolve_commit
CloneResolve(r) ==
  /\ pc[r] = "clone_resolve"
  /\ IF RefResolves(query[r], remote)
     THEN /\ pc' = Set(pc, r, "clone_git")
          /\ commit' = Set(commit, r, resolve_commit(query[r], remote))
          /\ err' = err
     ELSE /\ pc' = Set(pc, r, OnCloneError(query[r]))
          /\ err' = Set(err, r, "RefNotFound")
          /\ commit' = commit
  /\ UNCHANGED << remote, src, argBranch, argTag, argPatterns, route, query, warned, fs, usedIds, walkVars, auxVars >>

\* lines 89-116: git clone --single-branch --no-checkout --depth=1 into local_path
CloneGit(r) ==
  /\ pc[r] = "clone_git"
  /\ \/ /\ fs' = fs \cup { query[r].local_path, query[r].local_path \o << ".git" >> }
        /\ pc' = Set(pc, r, "clone_post")
        /\ err' = err
     \/ /\ err' = Set(err, r, "CloneFailed")
        /\ pc' = Set(pc, r, OnCloneError(query[r]))
        /\ fs' = fs
  /\ UNCHANGED << remote, src, argBranch, argTag, argPatterns, route, query, warned, usedIds, commit, walkVars, auxVars >>

\* lines 118-125: sparse-checkout, fetch, checkout (the work tree appears), submodules
ClonePost(r) ==
  /\ pc[r] = "clone_post"
  /\ \/ /\ fs' = fs \cup { query[r].local_path \o << "README.md" >> }
        /\ pc' = Set(pc, r, "gitignores")
        /\ err' = err
     \/ /\ err' = Set(err, r, "GitOperationFailed")
        /\ pc' = Set(pc, r, OnCloneError(query[r]))
        /\ fs' = fs
  /\ UNCHANGED << remote, src, argBranch, argTag, argPatterns, route, query, warned, usedIds, commit, walkVars, auxVars >>

\* async_timeout(DEFAULT_TIMEOUT) fires, or the caller cancels, while clone_repo runs
CloneInterrupted(r) ==
  /\ pc[r] \in ClonePcs \ { "clone_mkdir" }
  /\ \E e \in { "TimedOut", "CancelledInClone" } : err' = Set(err, r, e)
  /\ pc' = Set(pc, r, OnCloneError(query[r]))
  /\ UNCHANGED << remote, src, argBranch, argTag, argPatterns, route, query, warned, fs, usedIds, commit, walkVars, auxVars >>

\* ------------------------------------------------------------ the body
\* lines 136-138: _apply_gitignores
ApplyGitignores(r, Trees) ==
  /\ pc[r] = "gitignores"
  /\ \E tree \in Trees :
       query' = Set(query, r, IF argPatterns[r].include_gitignored
                              THEN query[r]
                              ELSE _apply_gitignores(query[r], tree))
  /\ pc' = Set(pc, r, "ingest")
  /\ UNCHANGED << remote, src, argBranch, argTag, argPatterns, route, warned, err, fs, usedIds, commit, walkVars, auxVars >>

\* line 141: ingest_query
IngestQuery(r) ==
  /\ pc[r] = "ingest"
  /\ pc' = Set(pc, r, "write")
  /\ UNCHANGED << remote, src, argBranch, argTag, argPatterns, route, query, warned, err, fs, usedIds, commit, walkVars, auxVars >>

\* lines 143-148: _write_output, then return
WriteOutput(r) ==
  /\ pc[r] = "write"
  /\ pc' = Set(pc, r, "exit")
  /\ UNCHANGED << remote, src, argBranch, argTag, argPatterns, route, query, warned, err, fs, usedIds, commit, walkVars, auxVars >>

BodyErrorAt(p) ==
  CASE p = "gitignores" -> { "IgnoreFileError", "CancelledInBody" }
    [] p = "ingest" -> { "WalkError", "CancelledInBody" }
    [] p = "write" -> { "WriteError", "CancelledInBody" }

\* a context manager that removes the directory only after a body that returned
OnBodyError_NoFinally(q) == "raised"

\* where an exception raised inside the `async with` body leaves ingest_async:
\* for a remote query the `finally` of _clone_repo_if_remote, else the caller
OnBodyError(q) == IF q.url # << >> THEN "exit" ELSE "raised"

\* an exception (or a cancellation) inside the body
BodyFail(r) ==
  /\ pc[r] \in BodyPcs
  /\ \E e \in BodyErrorAt(pc[r]) : err' = Set(err, r, e)
  /\ pc' = Set(pc, r, OnBodyError(query[r]))
  /\ UNCHANGED << remote, src, argBranch, argTag, argPatterns, route, query, warned, fs, usedIds, commit, walkVars, auxVars >>

\* lines 299-304: leaving _clone_repo_if_remote; an exception raised by rmtree
\* replaces the one in flight
ExitContext(r) ==
  /\ pc[r] = "exit"
  /\ IF query[r].url # << >>
     THEN \E p \in Perms, keepSibling \in BOOLEAN :
            LET rm == rmtree(ScratchDir(query[r]), p, fs, keepSibling)
            IN /\ fs' = rm.paths
               /\ err' = IF rm.raised THEN Set(err, r, "CleanupError") ELSE err
               /\ pc' = Set(pc, r, IF rm.raised \/ err[r] # NoStr THEN "raised" ELSE "returned")
     ELSE /\ pc' = Set(pc, r, IF err[r] # NoStr THEN "raised" ELSE "returned")
          /\ UNCHANGED << fs, err >>
  /\ UNCHANGED << remote, src, argBranch, argTag, argPatterns, route, query, warned, usedIds, commit, walkVars, auxVars >>

\* ------------------------------------------------------------ inputs
RepoUrl == << "https:", "github.com", "user", "repo" >>

\* sources and arguments of the concurrent requests
OtherUrl == << "gitlab.com", "other", "repo", ".git" >>
LifecycleSources == { RepoUrl, OtherUrl, << "." >> }
LifecycleRefArgs == { NoRef }
LifecyclePatArgs == { PatternArgs({ "*.log" }, { "*.py" }, FALSE) }
LifecycleTrees == { IgnoreFiles({ IgnoreFile("", { "# build output", "/build" }) }, {}) }

\* the repository exists on github.com only: the probe of OtherUrl fails
LifecycleRemotes ==
  { RemoteEnv({ << "v1" >> }, { << "main" >> }, FALSE, FALSE, { "github.com" }) }

\* what ingest_query and the walk read of the query: its type ("" for a local
\* directory), its subpath, the size cap and the two pattern sets
WalkQuery(type, subpath, max_file_size, ignore_patterns, include_patterns) ==
  [ type |-> type, subpath |-> subpath, max_file_size |-> max_file_size,
    ignore_patterns |-> ignore_patterns, include_patterns |-> include_patterns ]

\* a request to process_query: the inputs, whether the object store is
\* configured, and what the handler has done so far
ServerRequest(input_text, max_file_size, pattern_type, pattern, s3_enabled) ==
  [ pc |-> "parse", input_text |-> input_text, max_file_size |-> max_file_size,
    pattern_type |-> pattern_type, pattern |-> pattern, s3_enabled |-> s3_enabled,
    query |-> NoQuery, cache |-> "none", cloned |-> FALSE, scratch |-> FALSE,
    stored |-> FALSE, response |-> "none", error |-> NoStr,
    bucket |-> {}, served |-> {}, count |-> 1 ]

\* no request to process_query
NoServer == [ ServerRequest(<< >>, 0, "exclude", "", FALSE) EXCEPT !.pc = "idle" ]

\* the two runs of clone_repo that are compared
Runs == 1..2

\* no run of clone_repo in progress
NoRuns ==
  /\ gitenv = [ host |-> "", failing |-> "none", masking |-> FALSE, subpath |-> "/",
                include_submodules |-> FALSE, head |-> NoStr ]
  /\ tok = [ k \in Runs |-> NoStr ]
  /\ tpc = [ k \in Runs |-> "idle" ]
  /\ msg = [ k \in Runs |-> << >> ]
  /\ issued = [ k \in Runs |-> << >> ]

\* no walk in progress
NoWalk ==
  /\ wt = << >>
  /\ wq = WalkQuery("", << >>, 0, << >>, << >>)
  /\ stack = << >>
  /\ root_node = << >>
  /\ stats = [ total_files |-> 0, total_size |-> 0 ]
  /\ phase = "idle"
  /\ prev = {}

\* nothing else in progress
\* the entries the temp root can have
FolderNames == { "f1", "f2" }

\* an entry of the temp root: whether it is there, whether it was removed, its
\* ctime, the stem of its first *.txt file ("" if it has none), and whether
\* rmtree can remove it
Folder(present, ctime, txt, removable) ==
  [ present |-> present, removed |-> FALSE, ctime |-> ctime, txt |-> txt,
    removable |-> removable ]

\* no cleanup worker
NoCleanup ==
  /\ folders = [ f \in FolderNames |-> Folder(FALSE, 0, NoStr, TRUE) ]
  /\ history = << >>
  /\ clock = 0
  /\ scan = [ pc |-> "off", now |-> 0, pending |-> {}, seen |-> {}, failed |-> FALSE,
              count |-> 0 ]

NoAux ==
  /\ lines = << >>
  /\ sha = "idle"
  /\ NoRuns
  /\ srv = NoServer
  /\ NoCleanup

InitRequests ==
  /\ pc = [ r \in Requests |-> "idle" ]
  /\ src = [ r \in Requests |-> << >> ]
  /\ argBranch = [ r \in Requests |-> NoRef ]
  /\ argTag = [ r \in Requests |-> NoRef ]
  /\ argPatterns = [ r \in Requests |-> NoPatterns ]
  /\ route = [ r \in Requests |-> "none" ]
  /\ query = [ r \in Requests |-> NoQuery ]
  /\ warned = [ r \in Requests |-> FALSE ]
  /\ err = [ r \in Requests |-> NoStr ]
  /\ fs = {}
  /\ usedIds = {}
  /\ commit = [ r \in Requests |-> NoStr ]

Init ==
  /\ remote \in LifecycleRemotes
  /\ InitRequests
  /\ NoWalk
  /\ NoAux

Next ==
  \E r \in Requests :
    \/ Dispatch(r, LifecycleSources, LifecycleRefArgs, LifecyclePatArgs)
    \/ ParseRemote(r) \/ ParseLocal(r) \/ Configure(r)
    \/ CloneMkdir(r) \/ CloneProbe(r) \/ CloneResolve(r) \/ CloneGit(r) \/ ClonePost(r)
    \/ CloneInterrupted(r)
    \/ ApplyGitignores(r, LifecycleTrees) \/ IngestQuery(r) \/ WriteOutput(r) \/ BodyFail(r)
    \/ ExitContext(r)

Spec == Init /\ [][Next]_vars


\* ------------------------------------------------------------ one request, many inputs
SingleSources ==
  { RepoUrl,
    RepoUrl \o << "tree", "main", "src" >>,
    RepoUrl \o << "tree", "v1" >>,
    RepoUrl \o << "tree", ShaA, "src" >>,
    << "github.com", "user", "repo", ".git" >>,
    << "user", "repo" >>,
    << "git.example.com", "user", "repo" >>,
    << "ftp:", "github.com", "user", "repo" >>,
    << "." >>,
    << "", "tmp", "repo" >> }

SingleRefArgs == { NoRef, << "main" >>, << "v1" >>, << "dev" >>, << "feature" >> }

\* pattern arguments: none, a list in one string, patterns in both sets, a
\* default pattern included, a backslash, a shell metacharacter
SinglePatArgs ==
  { NoPatterns,
    PatternArgs({ "*.log" }, { "*.py, docs/*" }, FALSE),
    PatternArgs({ "*.py", "docs/*" }, { "*.py" }, FALSE),
    PatternArgs({}, { "*.pyc" }, TRUE),
    PatternArgs({ "src\\*.py" }, { " , " }, FALSE),
    PatternArgs({ "*.py;rm -rf" }, {}, FALSE) }

\* ignore files of the work tree: none, a .gitignore at the root, a
\* .gitignore whose pattern the caller includes and two .gitingestignore files
SingleTrees ==
  { IgnoreFiles({}, {}),
    IgnoreFiles({ IgnoreFile("", { "# build output", "", "/build", " *.log " }) }, {}),
    IgnoreFiles({ IgnoreFile("", { "*.py" }) },
                { IgnoreFile("", { "docs/*" }), IgnoreFile("docs", { "!/keep.txt", "*.log" }) }) }

SingleRemotes ==
  { RemoteEnv({ << "v1" >> }, { << "main" >> }, FALSE, FALSE, { "github.com" }),
    RemoteEnv({ << "v1" >>, << "v10" >>, << "feature" >>, << "feature-2" >> },
              { << "main" >> }, FALSE, FALSE, { "github.com" }),
    RemoteEnv({ << "v1" >> }, { << "main" >> }, TRUE, TRUE, { "github.com" }) }

InitSingle ==
  /\ remote \in SingleRemotes
  /\ InitRequests
  /\ NoWalk
  /\ NoAux

NextSingle ==
  \/ Dispatch(1, SingleSources, SingleRefArgs, SinglePatArgs)
  \/ ParseRemote(1) \/ ParseLocal(1) \/ Configure(1)
  \/ CloneMkdir(1) \/ CloneProbe(1) \/ CloneResolve(1) \/ CloneGit(1) \/ ClonePost(1)
  \/ CloneInterrupted(1)
  \/ ApplyGitignores(1, SingleTrees) \/ IngestQuery(1) \/ WriteOutput(1) \/ BodyFail(1)
  \/ ExitContext(1)

SpecSingle == InitSingle /\ [][NextSingle]_vars

\* ------------------------------------------------------------ the parser alone
\* parse_remote_repo called directly, as the parser's tests do
ParseTails ==
  { << >>,
    << "tree" >>,
    << "issues", "1" >>,
    << "wiki", "Home" >>,
    << "tree", "main", "src" >>,
    << "tree", "fix1" >>,
    << "tree", "feature", "fix1", "src" >>,
    << "blob", "v1", "README.md" >>,
    << "tree", ShaA, "src" >>,
    << "tree", NotHex40, "src" >>,
    << "tree", ShortHex >> }

ParseHeads ==
  { << "https:", "github.com", "user", "repo" >>,
    << "http:", "gitlab.com", "user", "repo" >>,
    << "gitlab.example.com", "user", "repo" >>,
    << "user", "repo" >>,
    << "https:", "example.com", "user", "repo" >>,
    << "ftp:", "github.com", "user", "repo" >>,
    << "https:", "github.com", "user" >> }

ParseSources == { h \o t : h \in ParseHeads, t \in ParseTails } \cup { << >>, << "https:" >> }

ParseTagSets == { {}, { << "v1" >> }, { << "feature" >>, << "v1" >> } }
ParseBranchSets ==
  { { << "main" >> },
    { << "main" >>, << "feature", "fix1" >>, << "fix1" >> },
    { << "main" >>, << "feature" >>, << "feature", "fix1" >> } }

ParseRemotes ==
  { RemoteEnv(t, b, tf, bf, ex) :
      t \in ParseTagSets, b \in ParseBranchSets, tf \in BOOLEAN, bf \in BOOLEAN,
      ex \in { { "github.com" }, { "gitlab.com", "codeberg.org" }, {} } }

InitParse ==
  /\ remote \in ParseRemotes
  /\ \E s \in ParseSources : src = [ r \in Requests |-> IF r = 1 THEN s ELSE << >> ]
  /\ pc = [ r \in Requests |-> IF r = 1 THEN "parse_remote" ELSE "idle" ]
  /\ argBranch = [ r \in Requests |-> NoRef ]
  /\ argTag = [ r \in Requests |-> NoRef ]
  /\ argPatterns = [ r \in Requests |-> NoPatterns ]
  /\ route = [ r \in Requests |-> IF r = 1 THEN "remote" ELSE "none" ]
  /\ query = [ r \in Requests |-> NoQuery ]
  /\ warned = [ r \in Requests |-> FALSE ]
  /\ err = [ r \in Requests |-> NoStr ]
  /\ fs = {}
  /\ usedIds = {}
  /\ commit = [ r \in Requests |-> NoStr ]
  /\ NoWalk
  /\ NoAux

NextParse == ParseRemote(1)

SpecParse == InitParse /\ [][NextParse]_vars


\* ============================================================ the walker
\* A relative path is the sequence of its names; the walked directory is << >>.
\* A name is one token; what the code reads off a name's characters is tabled here.

\* str.lower() of an entry name
Lower(name) == IF name = "A.txt" THEN "a.txt" ELSE IF name = "README.md" THEN "readme.md" ELSE name

\* the lower-cased names in the order Python compares strings (code points)
LowerNames ==
  << ".env", ".hid", "a.txt", "b.txt", "big.bin", "d1", "d2", "empty", "f.txt", "l1", "l2",
     "m.py", "m.pyc", "pipe", "readme.md", "src", "x.py" >>

\* the position of a lower-cased name in that order
Rank(lname) == CHOOSE i \in 1..Len(LowerNames) : LowerNames[i] = lname

\* name == "readme" or name.startswith("readme.")
IsReadme(lname) == lname \in { "readme", "readme.md" }

\* name.startswith(".")
StartsWithDot(lname) == lname \in { ".env", ".hid" }

\* fnmatchcase(name, glob) for the globs the inputs use
fnmatchcase(name, glob) ==
  CASE glob = "*" -> TRUE
    [] glob = "*.py" -> name \in { "m.py", "x.py" }
    [] glob = "*.pyc" -> name \in { "m.pyc" }
    [] glob = "*.txt" -> name \in { "a.txt", "A.txt", "b.txt", "f.txt" }
    [] OTHER -> name = glob

\* FileSystemNode
FileSystemNode(name, type, size, file_count, depth) ==
  [ name |-> name, type |-> type, size |-> size, file_count |-> file_count,
    dir_count |-> 0, depth |-> depth, children |-> << >> ]

\* _sort_key of sort_children, as one integer: the group first, then the lower-cased name
_sort_key(child) ==
  LET name == Lower(child.name)
      group == IF child.type = "FILE"
               THEN IF IsReadme(name) THEN 0 ELSE IF ~StartsWithDot(name) THEN 1 ELSE 2
               ELSE IF ~StartsWithDot(name) THEN 3 ELSE 4
  IN group * (Len(LowerNames) + 1) + Rank(name)

\* one step of list.sort: x goes after every element whose key is not greater (the sort is stable)
InsertSorted(sorted, x) ==
  LET n == Cardinality({ i \in 1..Len(sorted) : _sort_key(sorted[i]) <= _sort_key(x) })
  IN SubSeq(sorted, 1, n) \o << x >> \o SubSeq(sorted, n + 1, Len(sorted))

RECURSIVE SortedBy(_)
\* self.children.sort(key=_sort_key)
SortedBy(children) ==
  IF children = << >> THEN << >>
  ELSE InsertSorted(SortedBy(SubSeq(children, 1, Len(children) - 1)), children[Len(children)])

\* children left in the order the directory was read
sort_children_Unsorted(node) == node

\* FileSystemNode.sort_children
sort_children(node) == [ node EXCEPT !.children = SortedBy(node.children) ]

\* a pattern of a pattern set, as pathspec's gitwildmatch reads it:
\*   neg      - it starts with "!"
\*   anchored - it starts with "/" or has a "/" before its last segment
\*   dir_only - it ends with "/"
\*   parts    - its segments
Pattern(neg, anchored, dir_only, parts) ==
  [ neg |-> neg, anchored |-> anchored, dir_only |-> dir_only, parts |-> parts ]

RECURSIVE GlobMatch(_, _, _, _, _)
\* the gitwildmatch regex of parts[i..] against path[j..]; a matched directory
\* matches everything below it, and a dir_only pattern needs something after the match
GlobMatch(parts, path, i, j, needSlash) ==
  IF i > Len(parts)
  THEN j <= Len(path) \/ ~needSlash
  ELSE IF parts[i] = "**"
       THEN IF i = Len(parts)
            THEN j <= Len(path)
            ELSE \/ GlobMatch(parts, path, i + 1, j, needSlash)
                 \/ j <= Len(path) /\ GlobMatch(parts, path, i, j + 1, needSlash)
       ELSE /\ j <= Len(path)
            /\ fnmatchcase(path[j], parts[i])
            /\ GlobMatch(parts, path, i + 1, j + 1, needSlash)

\* one compiled pattern against a path string; slash says the string ends with "/"
PatternMatches(pat, path, slash) ==
  LET parts == IF pat.anchored THEN pat.parts ELSE << "**" >> \o pat.parts
  IN GlobMatch(parts, path, 1, 1, pat.dir_only /\ ~slash)

RECURSIVE match_file(_, _, _)
\* PathSpec.match_file: the last pattern that matches decides
match_file(patterns, path, slash) ==
  IF patterns = << >> THEN FALSE
  ELSE LET last == patterns[Len(patterns)]
       IN IF PatternMatches(last, path, slash)
          THEN ~last.neg
          ELSE match_file(SubSeq(patterns, 1, Len(patterns) - 1), path, slash)

\* _should_exclude: match_file(str(rel_path)), which never ends with "/"
_should_exclude(path, ignore_patterns) == match_file(ignore_patterns, path, FALSE)

\* _parse_include_pattern
_parse_include_pattern(pat) ==
  [ parts |-> pat.parts, has_dir_separator |-> pat.anchored ]

RECURSIVE _matches(_, _, _, _)
\* the inner function of _pattern_could_match_directory
_matches(parts, dir_parts, p_idx, d_idx) ==
  IF d_idx > Len(dir_parts) THEN TRUE
  ELSE IF p_idx > Len(parts) THEN FALSE
  ELSE IF parts[p_idx] = "**"
       THEN \/ _matches(parts, dir_parts, p_idx + 1, d_idx)
            \/ _matches(parts, dir_parts, p_idx, d_idx + 1)
       ELSE /\ fnmatchcase(dir_parts[d_idx], parts[p_idx])
            /\ _matches(parts, dir_parts, p_idx + 1, d_idx + 1)

\* a test that takes every pattern for a path from the root
_pattern_could_match_directory_SeparatorOnly(pattern, dir_parts) ==
  _matches(pattern.parts, dir_parts, 1, 1)

\* _pattern_could_match_directory
_pattern_could_match_directory(pattern, dir_parts) ==
  ~pattern.has_dir_separator \/ _matches(pattern.parts, dir_parts, 1, 1)

\* _should_include
_should_include(path, is_dir, include_patterns) ==
  IF ~is_dir
  THEN match_file(include_patterns, path, FALSE)
  ELSE \/ path # << >> /\ match_file(include_patterns, path, TRUE)
       \/ \E k \in 1..Len(include_patterns) :
            _pattern_could_match_directory(_parse_include_pattern(include_patterns[k]), path)

\* the caps of the walk, scaled down
MAX_DIRECTORY_DEPTH == 1
MAX_FILES == 2
MAX_TOTAL_SIZE_BYTES == 4

\* the caps without the test of the depth
limit_exceeded_NoDepth(st, depth) ==
  \/ st.total_files >= MAX_FILES
  \/ st.total_size >= MAX_TOTAL_SIZE_BYTES

\* limit_exceeded
limit_exceeded(st, depth) ==
  \/ depth > MAX_DIRECTORY_DEPTH
  \/ st.total_files >= MAX_FILES
  \/ st.total_size >= MAX_TOTAL_SIZE_BYTES

\* node.path.iterdir(): the entries of directory dir, in no particular order
iterdir(dir) == { p \in DOMAIN wt : Len(p) = Len(dir) + 1 /\ IsPrefix(dir, p) }

\* one active call of _process_node: its node, the node's path, and the entries
\* the loop over iterdir() has not reached yet
Frame(node, path) == [ node |-> node, path |-> path, pending |-> iterdir(path) ]

\* the call of _process_node that is running, and its callers
Top == stack[1]
Callers == Drop(stack, 1)

\* the running call moves on to its next entry, with its node replaced by node
Continue(node, sub_path) ==
  << [ Top EXCEPT !.node = node, !.pending = @ \ { sub_path } ] >> \o Callers

\* the entry the loop reaches next
IsNextEntry(sub_path) ==
  /\ phase = "walking"
  /\ stack # << >>
  /\ sub_path \in Top.pending

Excluded(sub_path) ==
  wq.ignore_patterns # << >> /\ _should_exclude(sub_path, wq.ignore_patterns)

NotIncluded(sub_path) ==
  /\ wq.include_patterns # << >>
  /\ ~_should_include(sub_path, wt[sub_path].type = "DIRECTORY", wq.include_patterns)

\* the entry passed both pattern tests of lines 143-147
Eligible(sub_path) == ~Excluded(sub_path) /\ ~NotIncluded(sub_path)

\* path.exists() for path = local_path / subpath
PathExists(path) == path = << >> \/ path \in DOMAIN wt

\* path.name
PathName(path) == IF path = << >> THEN "" ELSE path[Len(path)]

\* ingest_query, lines 55-60: the path is not there
PathNotFound ==
  /\ phase = "start"
  /\ ~PathExists(wq.subpath)
  /\ phase' = "failed"
  /\ UNCHANGED << wt, wq, stack, root_node, stats, prev, reqVars, auxVars >>

\* ingest_query, lines 62-94: the target of a blob URL is formatted on its own
IngestSingleFile ==
  /\ phase = "start"
  /\ PathExists(wq.subpath)
  /\ wq.type = "blob"
  /\ IF wq.subpath # << >> /\ wt[wq.subpath].type = "FILE"
     THEN /\ root_node' = FileSystemNode(PathName(wq.subpath), "FILE", wt[wq.subpath].size, 1, 0)
          /\ phase' = "done"
     ELSE /\ phase' = "failed"
          /\ UNCHANGED root_node
  /\ UNCHANGED << wt, wq, stack, stats, prev, reqVars, auxVars >>

\* ingest_query, lines 96-107: the root node, fresh stats, the first call of _process_node
StartWalk ==
  /\ phase = "start"
  /\ PathExists(wq.subpath)
  /\ wq.type # "blob"
  /\ stats' = [ total_files |-> 0, total_size |-> 0 ]
  /\ LET root == FileSystemNode(PathName(wq.subpath), "DIRECTORY", 0, 0, 0)
     IN IF limit_exceeded(stats', 0)
        THEN /\ root_node' = root
             /\ stack' = << >>
             /\ phase' = "done"
        ELSE /\ stack' = << Frame(root, wq.subpath) >>
             /\ phase' = "walking"
             /\ UNCHANGED root_node
  /\ UNCHANGED << wt, wq, prev, reqVars, auxVars >>

\* _process_node lines 143-147: the entry is skipped by the pattern sets
SkipByPattern ==
  \E sub_path \in DOMAIN wt :
    /\ IsNextEntry(sub_path)
    /\ ~Eligible(sub_path)
    /\ stack' = Continue(Top.node, sub_path)
    /\ UNCHANGED << wt, wq, root_node, stats, phase, prev, reqVars, auxVars >>

\* a symbolic link that is appended without being counted in its directory
ProcessSymlink_NoCount ==
  \E sub_path \in DOMAIN wt :
    /\ IsNextEntry(sub_path)
    /\ Eligible(sub_path)
    /\ wt[sub_path].type = "SYMLINK"
    /\ LET parent == Top.node
           child == FileSystemNode(sub_path[Len(sub_path)], "SYMLINK", 0, 0, parent.depth + 1)
       IN /\ stats' = [ stats EXCEPT !.total_files = @ + 1 ]
          /\ stack' = Continue([ parent EXCEPT !.children = Append(@, child) ], sub_path)
    /\ UNCHANGED << wt, wq, root_node, phase, prev, reqVars, auxVars >>

\* _process_node lines 149-150 with _process_symlink
ProcessSymlink ==
  \E sub_path \in DOMAIN wt :
    /\ IsNextEntry(sub_path)
    /\ Eligible(sub_path)
    /\ wt[sub_path].type = "SYMLINK"
    /\ LET parent == Top.node
           child == FileSystemNode(sub_path[Len(sub_path)], "SYMLINK", 0, 0, parent.depth + 1)
       IN /\ stats' = [ stats EXCEPT !.total_files = @ + 1 ]
          /\ stack' = Continue([ parent EXCEPT !.children = Append(@, child),
                                               !.file_count = @ + 1 ], sub_path)
    /\ UNCHANGED << wt, wq, root_node, phase, prev, reqVars, auxVars >>

\* _process_node lines 151-162 with _process_file
ProcessFile ==
  \E sub_path \in DOMAIN wt :
    /\ IsNextEntry(sub_path)
    /\ Eligible(sub_path)
    /\ wt[sub_path].type = "FILE"
    /\ LET parent == Top.node
           file_size == wt[sub_path].size
           child == FileSystemNode(sub_path[Len(sub_path)], "FILE", file_size, 1, parent.depth + 1)
       IN IF \/ file_size > wq.max_file_size
             \/ stats.total_files + 1 > MAX_FILES
             \/ stats.total_size + file_size > MAX_TOTAL_SIZE_BYTES
          THEN /\ stack' = Continue(parent, sub_path)
               /\ UNCHANGED stats
          ELSE /\ stats' = [ total_files |-> stats.total_files + 1,
                             total_size |-> stats.total_size + file_size ]
               /\ stack' = Continue([ parent EXCEPT !.children = Append(@, child),
                                                    !.size = @ + file_size,
                                                    !.file_count = @ + 1 ], sub_path)
    /\ UNCHANGED << wt, wq, root_node, phase, prev, reqVars, auxVars >>

\* _process_node lines 163-172: a directory entry; the recursive call returns at
\* once when a limit is exceeded, and the childless node is not attached
EnterDirectory ==
  \E sub_path \in DOMAIN wt :
    /\ IsNextEntry(sub_path)
    /\ Eligible(sub_path)
    /\ wt[sub_path].type = "DIRECTORY"
    /\ LET child_directory_node ==
             FileSystemNode(sub_path[Len(sub_path)], "DIRECTORY", 0, 0, Top.node.depth + 1)
       IN IF limit_exceeded(stats, child_directory_node.depth)
          THEN stack' = Continue(Top.node, sub_path)
          ELSE stack' = << Frame(child_directory_node, sub_path) >>
                          \o Continue(Top.node, sub_path)
    /\ UNCHANGED << wt, wq, root_node, stats, phase, prev, reqVars, auxVars >>

\* _process_node lines 181-182: neither symlink, file nor directory
SkipUnknown ==
  \E sub_path \in DOMAIN wt :
    /\ IsNextEntry(sub_path)
    /\ Eligible(sub_path)
    /\ wt[sub_path].type = "OTHER"
    /\ stack' = Continue(Top.node, sub_path)
    /\ UNCHANGED << wt, wq, root_node, stats, phase, prev, reqVars, auxVars >>

\* _process_node line 184 and the caller's lines 174-180: the loop is over, the
\* children are sorted, and the caller attaches the node iff it has children
LeaveDirectory ==
  /\ phase = "walking"
  /\ stack # << >>
  /\ Top.pending = {}
  /\ LET node == sort_children(Top.node)
     IN IF Len(stack) = 1
        THEN /\ root_node' = node
             /\ stack' = << >>
             /\ phase' = "done"
        ELSE LET caller == stack[2]
                 parent == caller.node
             IN /\ stack' =
                     << [ caller EXCEPT !.node =
                            IF node.children = << >> THEN parent
                            ELSE [ parent EXCEPT !.children = Append(@, node),
                                                 !.size = @ + node.size,
                                                 !.file_count = @ + node.file_count,
                                                 !.dir_count = @ + 1 + node.dir_count ] ] >>
                     \o Drop(stack, 2)
                /\ UNCHANGED << root_node, phase >>
  /\ UNCHANGED << wt, wq, stats, prev, reqVars, auxVars >>

\* a second ingest of the same working tree with the same query: the first
\* result is kept for comparison
WalkAgain ==
  /\ phase = "done"
  /\ prev = {}
  /\ prev' = { root_node }
  /\ phase' = "start"
  /\ UNCHANGED << wt, wq, stack, root_node, stats, reqVars, auxVars >>

\* ------------------------------------------------------------ walker inputs
File(size) == [ type |-> "FILE", size |-> size ]
Symlink == [ type |-> "SYMLINK", size |-> 0 ]
Directory == [ type |-> "DIRECTORY", size |-> 0 ]
Other == [ type |-> "OTHER", size |-> 0 ]

\* siblings whose names differ only in case, a README, a dot file and two directories
CaseTree ==
  (<< "a.txt" >> :> File(1)) @@ (<< "A.txt" >> :> File(2)) @@ (<< "README.md" >> :> File(1))
  @@ (<< ".env" >> :> File(1)) @@ (<< "src" >> :> Directory) @@ (<< "src", "m.py" >> :> File(1))
  @@ (<< ".hid" >> :> Directory) @@ (<< ".hid", "f.txt" >> :> File(1))

\* two siblings that differ only in case and fit under every cap
PairTree == (<< "a.txt" >> :> File(1)) @@ (<< "A.txt" >> :> File(2))

\* files and symbolic links in one directory
LinkTree ==
  (<< "a.txt" >> :> File(1)) @@ (<< "b.txt" >> :> File(1))
  @@ (<< "l1" >> :> Symlink) @@ (<< "l2" >> :> Symlink) @@ (<< "src" >> :> Directory)
  @@ (<< "src", "l1" >> :> Symlink) @@ (<< "src", "l2" >> :> Symlink)

\* nested directories, an empty directory, an oversize file, a fifo, a compiled file
DeepTree ==
  (<< "big.bin" >> :> File(5)) @@ (<< "empty" >> :> Directory) @@ (<< "pipe" >> :> Other)
  @@ (<< "m.pyc" >> :> File(1)) @@ (<< "d1" >> :> Directory) @@ (<< "d1", "x.py" >> :> File(1))
  @@ (<< "d1", "d2" >> :> Directory) @@ (<< "d1", "d2", "f.txt" >> :> File(1))
  @@ (<< "d1", "d2", "src" >> :> Directory) @@ (<< "d1", "d2", "src", "m.py" >> :> File(1))

\* a source directory with a nested package next to a directory of documents
SourceTree ==
  (<< "src" >> :> Directory) @@ (<< "src", "m.py" >> :> File(1))
  @@ (<< "src", "d1" >> :> Directory) @@ (<< "src", "d1", "x.py" >> :> File(1))
  @@ (<< "d2" >> :> Directory) @@ (<< "d2", "f.txt" >> :> File(1))
  @@ (<< "d2", "src" >> :> Directory) @@ (<< "d2", "src", "x.py" >> :> File(1))

\* three files of one directory of which any two large ones exceed the size cap
SizeTree ==
  (<< "a.txt" >> :> File(3)) @@ (<< "b.txt" >> :> File(3)) @@ (<< "f.txt" >> :> File(1))

WalkTrees == { CaseTree, PairTree, LinkTree, DeepTree, SourceTree, SizeTree }

WalkQueries ==
  { WalkQuery("", << >>, 3, << >>, << >>),
    WalkQuery("tree", << >>, 3,
              << Pattern(FALSE, FALSE, FALSE, << "*.pyc" >>),
                 Pattern(FALSE, FALSE, TRUE, << ".hid" >>) >>,
              << >>),
    WalkQuery("", << >>, 1,
              << >>,
              << Pattern(FALSE, TRUE, FALSE, << "d1", "**", "*.py" >>),
                 Pattern(FALSE, FALSE, FALSE, << "*.txt" >>) >>),
    WalkQuery("", << >>, 3,
              << >>,
              << Pattern(FALSE, TRUE, FALSE, << "src", "**", "*.py" >>) >>),
    WalkQuery("", << >>, 3,
              << >>,
              << Pattern(FALSE, TRUE, FALSE, << "d1", "d2" >>),
                 Pattern(FALSE, TRUE, FALSE, << "src", "*", "x.py" >>) >>),
    WalkQuery("", << >>, 3,
              << Pattern(FALSE, FALSE, FALSE, << "x.py" >>),
                 Pattern(FALSE, FALSE, FALSE, << "d2" >>) >>,
              << Pattern(FALSE, FALSE, FALSE, << "*.py" >>),
                 Pattern(FALSE, FALSE, FALSE, << "*.txt" >>) >>),
    WalkQuery("", << >>, 3,
              << Pattern(FALSE, FALSE, FALSE, << "*.txt" >>),
                 Pattern(TRUE, FALSE, FALSE, << "a.txt" >>) >>,
              << >>),
    WalkQuery("blob", << "m.pyc" >>, 3,
              << Pattern(FALSE, FALSE, FALSE, << "*.pyc" >>) >>,
              << >>),
    WalkQuery("blob", << "big.bin" >>, 3, << >>, << >>),
    WalkQuery("blob", << "src" >>, 3, << >>, << >>),
    WalkQuery("tree", << "src" >>, 3, << >>, << >>) }

\* the orders in which iterating over the set of ignore patterns can yield
\* its elements when _should_exclude hands it to PathSpec.from_lines
Enumerations(patterns) ==
  { [ i \in 1..Len(patterns) |-> patterns[f[i]] ] :
      f \in { g \in [ 1..Len(patterns) -> 1..Len(patterns) ] :
                \A a, b \in 1..Len(patterns) : a # b => g[a] # g[b] } }

InitWalk ==
  /\ remote \in LifecycleRemotes
  /\ InitRequests
  /\ wt \in WalkTrees
  /\ \E q \in WalkQueries :
       \E order \in Enumerations(q.ignore_patterns) :
         wq = [ q EXCEPT !.ignore_patterns = order ]
  /\ stack = << >>
  /\ root_node = << >>
  /\ stats = [ total_files |-> 0, total_size |-> 0 ]
  /\ phase = "start"
  /\ prev = {}
  /\ NoAux

NextWalk ==
  \/ PathNotFound \/ IngestSingleFile \/ StartWalk
  \/ SkipByPattern \/ ProcessSymlink \/ ProcessFile \/ EnterDirectory \/ SkipUnknown
  \/ LeaveDirectory
  \/ WalkAgain

SpecWalk == InitWalk /\ [][NextWalk]_vars


\* ============================================================ properties
IsRemoteQuery(r) == query[r].url # << >>

\* the paths of request r's scratch directory <temp-root>/<id> that exist
ScratchResidue(r) == Under(ScratchDir(query[r]), fs)

C2_NoResidueAfterCloneFailure ==
  \A r \in Requests :
    (pc[r] \in DonePcs /\ IsRemoteQuery(r) /\ err[r] \in CloneErrors)
      => ScratchResidue(r) = {}

\* C3: the scratch directories of any two requests are distinct, and a step
\* of one request (the one whose pc changes) creates or removes no path inside
\* the scratch directory of another request.
C3_ScratchIsolation ==
  /\ [](\A r, q \in Requests :
          (r # q /\ IsRemoteQuery(r) /\ IsRemoteQuery(q))
            => ScratchDir(query[r]) # ScratchDir(query[q]))
  /\ [][\A q \in Requests :
          (IsRemoteQuery(q) /\ pc'[q] = pc[q])
            => Under(ScratchDir(query[q]), fs') = Under(ScratchDir(query[q]), fs)]_vars

\* C3 witness: of two requests on the same repository, one has returned with
\* its scratch directory removed while the work tree of the other, still in
\* its body, is intact
C3_Witness ==
  \E r, q \in Requests :
    /\ r # q /\ IsRemoteQuery(r) /\ IsRemoteQuery(q)
    /\ query[r].url = query[q].url
    /\ pc[r] \in DonePcs /\ err[r] = NoStr /\ ScratchResidue(r) = {}
    /\ pc[q] \in BodyPcs /\ query[q].local_path \o << "README.md" >> \in fs

\* C4: for a fixed working tree, fixed pattern sets and fixed caps, the tree the
\* walker returns (the nodes present and the order of every directory's children)
\* is the same whatever order the directory entries are enumerated in: a second
\* walk of the same tree returns the tree the first walk returned, also when a
\* cap truncates the walk and when sibling names differ only in letter case.
C4_WalkIndependentOfEnumerationOrder ==
  (phase = "done" /\ prev # {}) => root_node \in prev

\* C5: in every state of a walk total_files <= MAX_FILES and total_size <=
\* MAX_TOTAL_SIZE_BYTES, total_files counting the File and the Symlink nodes
\* added, and the tree a walk returns holds no more than MAX_FILES of them.
C5_CapsNeverExceeded ==
  /\ stats.total_files <= MAX_FILES
  /\ stats.total_size <= MAX_TOTAL_SIZE_BYTES
  /\ phase = "done" => root_node.file_count <= MAX_FILES

\* the first ref segment of a tree/blob source passed to the parser, << >> if none
RefParts(source) ==
  LET full == IF UrlScheme(source) # NoStr THEN Tail(source)
              ELSE IF Len(source) > 0 /\ HasDot(source[1]) THEN source
              ELSE << "" >> \o source
  IN IF Len(full) >= 5 /\ full[4] \in { "tree", "blob" } THEN Drop(full, 4) ELSE << >>

ParsedOk(r) == pc[r] = "configure"

\* C6: every query the remote parser returns has commit set to a valid 40-hex SHA.
C6_CommitAlwaysSet ==
  ParsedOk(1) => _is_valid_git_commit_hash(query[1].commit)

\* the longest prefix of parts that is in refs, << >> if none
LongestPrefixIn(parts, refs) ==
  LET hits == { k \in 1..Len(parts) : SubSeq(parts, 1, k) \in refs }
  IN IF hits = {} THEN << >>
     ELSE SubSeq(parts, 1, CHOOSE i \in hits : \A j \in hits : j <= i)

\* C7: for a tree/blob URL whose first ref segment is not a 40-hex commit and
\* whose ref listings succeed, the tag is the longest prefix of the remaining
\* segments found in the tag list, else the branch is the longest prefix found
\* in the branch list; exactly that prefix is consumed, the rest is the subpath.
C7_LongestPrefixRef ==
  LET P == RefParts(src[1])
      t == LongestPrefixIn(P, remote.tags)
      b == LongestPrefixIn(P, remote.branches)
  IN (ParsedOk(1) /\ P # << >> /\ ~_is_valid_git_commit_hash(P[1])
        /\ ~remote.tagsFail /\ ~remote.branchesFail)
       => IF t # << >>
          THEN query[1].tag = t /\ query[1].branch = NoRef /\ query[1].subpath = Drop(P, Len(t))
          ELSE query[1].tag = NoRef /\ query[1].branch = b
               /\ query[1].subpath = IF b # << >> THEN Drop(P, Len(b)) ELSE << >>

\* a listing that the parser attempted has failed: the tag listing, or the
\* branch listing after a tag listing that matched nothing
ListingFailed(P, env) ==
  env.tagsFail \/ (LongestPrefixIn(P, env.tags) = << >> /\ env.branchesFail)

\* C8: when listing remote refs fails while parsing a tree/blob URL, the parse
\* succeeds with a warning, the first ref segment is taken as the branch, the
\* tag stays unset and the remaining segments become the subpath.
C8_ListingFailureFallsBackToBranch ==
  LET P == RefParts(src[1])
  IN (pc[1] # "parse_remote" /\ P # << >> /\ ~_is_valid_git_commit_hash(P[1])
        /\ ListingFailed(P, remote) /\ err[1] \notin { "Invalid URL scheme", "Unknown domain",
                                                        "Could not find a valid repository host" })
       => /\ ParsedOk(1) /\ warned[1]
          /\ query[1].branch = << P[1] >> /\ query[1].tag = NoRef
          /\ query[1].subpath = Tail(P)

\* the source shapes the claim sends to the remote parser: an http/https
\* scheme, a known host somewhere in it, or a bare owner/repo slug
IsBareSlug(source) ==
  /\ Len(source) = 2
  /\ \A i \in 1..2 : source[i] \notin SchemeTokens \cup HostTokens \cup { "", ".", ".." }

LooksRemoteToClaim(source) == LooksRemoteToCode(source) \/ IsBareSlug(source)

\* C9: ingest_async hands to the remote parser every source with an http/https
\* scheme, a known host or the shape of a bare owner/repo slug, and only those.
C9_RemoteShapesReachRemoteParser ==
  \A r \in Requests :
    route[r] # "none"
      => (route[r] = "remote" <=> LooksRemoteToClaim(removesuffix(src[r], ".git")))

\* the positions after the first call of _override_branch_and_tag
AfterOverride(r) == IsRemoteQuery(r) /\ pc[r] \notin { "idle", "parse_remote", "parse_local" }

\* C10: after the caller's overrides have been applied (once, at "configure",
\* or twice, later), the query never has both tag and branch set; with branch=X
\* and tag=Y passed the result is tag=Y with branch cleared.
C10_TagWinsOverBranch ==
  \A r \in Requests :
    AfterOverride(r)
      => /\ ~(query[r].tag # NoRef /\ query[r].branch # NoRef)
         /\ (argBranch[r] # NoRef /\ argTag[r] # NoRef)
              => (query[r].tag = argTag[r] /\ query[r].branch = NoRef)

\* C10 witness: branch=main and tag=v1 were passed for a URL that itself named
\* branch main, both overrides ran, and the query holds tag v1 and no branch
C10_Witness ==
  \E r \in Requests :
    /\ pc[r] = "clone_mkdir"
    /\ src[r] = RepoUrl \o << "tree", "main", "src" >>
    /\ argBranch[r] = << "main" >> /\ argTag[r] = << "v1" >>
    /\ query[r].tag = << "v1" >> /\ query[r].branch = NoRef

\* C11: when the caller passes branch=B and no tag, the commit the clone step
\* fetches and checks out is the one refs/heads/B resolves to, whatever ref the
\* URL carried; and a caller-passed tag=T decides the commit likewise, also
\* when the URL carried a commit.
C11_CallerRefDecidesCommit ==
  \A r \in Requests :
    (IsRemoteQuery(r) /\ commit[r] # NoStr) =>
      /\ (argBranch[r] # NoRef /\ argTag[r] = NoRef)
           => commit[r] = _resolve_ref_to_sha(remote, "heads", argBranch[r])
      /\ argTag[r] # NoRef => commit[r] = _resolve_ref_to_sha(remote, "tags", argTag[r])

\* ------------------------------------------------------------ the resolver alone
\* _resolve_ref_to_sha on the lines of one ls-remote reply
MaxLines == 3

ReplyLines ==
  { BlankLine, RefLine("sha 1", FALSE), RefLine("sha 2", FALSE),
    RefLine("sha 3", TRUE), RefLine("sha 4", TRUE) }

Replies == UNION { [ 1..n -> ReplyLines ] : n \in 0..MaxLines }

\* lines 486-490: pick the SHA, raise ValueError ("... not found ...") when there is none
PickCommitSha ==
  /\ sha = "pending"
  /\ sha' = IF _pick_commit_sha(lines) = NoStr THEN "not found" ELSE _pick_commit_sha(lines)
  /\ UNCHANGED << lines, reqVars, walkVars, tokVars, srv, gcVars >>

InitPick ==
  /\ remote \in LifecycleRemotes
  /\ InitRequests
  /\ NoWalk
  /\ NoRuns
  /\ srv = NoServer
  /\ NoCleanup
  /\ lines \in Replies
  /\ sha = "pending"

NextPick == PickCommitSha

SpecPick == InitPick /\ [][NextPick]_vars

\* C12: given the lines of one ls-remote reply, the resolver returns the SHA of
\* a peeled line whenever one is present, wherever it stands; otherwise the SHA
\* of the first non-blank line; and it fails with "not found" when the reply
\* has no non-blank line.
C12_PeeledLinePreferred ==
  sha \notin { "idle", "pending" } =>
    LET peeled == { i \in 1..Len(lines) : ~lines[i].blank /\ lines[i].peeled }
        nonblank == { i \in 1..Len(lines) : ~lines[i].blank }
    IN /\ peeled # {} => \E i \in peeled : sha = lines[i].sha
       /\ (peeled = {} /\ nonblank # {})
            => \E i \in nonblank : sha = lines[i].sha /\ \A j \in nonblank : i <= j
       /\ nonblank = {} => sha = "not found"

\* C12 witness: the reply holds an ordinary line, then a blank line, then a
\* peeled line, and the peeled line's SHA was returned
C12_Witness ==
  /\ lines = << RefLine("sha 1", FALSE), BlankLine, RefLine("sha 3", TRUE) >>
  /\ sha = "sha 3"


\* C13: from the merge of the pattern sets to the end of the walk no pattern
\* string is in both the include set and the exclude set of the query, also
\* after the patterns of the ignore files were added to the exclude set.
C13_IncludeExcludeDisjoint ==
  \A r \in Requests :
    pc[r] \in ClonePcs \cup BodyPcs =>
      query[r].ignore_patterns \cap query[r].include_patterns = {}

\* the caller passed a pattern with a character outside the allowed class
InvalidPatternPassed(args) ==
  \E part \in _parse_patterns(args.exclude_patterns) \cup _parse_patterns(args.include_patterns) :
    HasInvalidCharacter(part)

\* C14: a request whose include or exclude argument holds a pattern with a
\* character outside [A-Za-z0-9_./+*@!-] fails when the patterns are parsed: it
\* never reaches the clone, the walk or a normal return.
C14_InvalidPatternFailsAtParse ==
  \A r \in Requests :
    InvalidPatternPassed(argPatterns[r]) =>
      pc[r] \notin ClonePcs \cup BodyPcs \cup { "exit", "returned" }

\* the directories of the walked tree
Directories == { d \in DOMAIN wt : wt[d].type = "DIRECTORY" }

\* some path below directory d matches the include set
LeadsToIncluded(d) ==
  \E p \in DOMAIN wt :
    IsPrefix(d, p) /\ p # d /\ match_file(wq.include_patterns, p, FALSE)

\* every include pattern has a separator, and none matches d or a directory
\* above it, and none has leading segments that match the segments of d
NoPatternReaches(d) ==
  \A k \in 1..Len(wq.include_patterns) :
    LET pat == wq.include_patterns[k]
    IN /\ _parse_include_pattern(pat).has_dir_separator
       /\ ~PatternMatches(pat, d, TRUE)
       /\ ~_matches(pat.parts, d, 1, 1)

RECURSIVE HasDirectory(_, _)
\* the tree under node has a Directory node at the relative path
HasDirectory(node, path) ==
  \/ path = << >>
  \/ \E i \in 1..Len(node.children) :
       /\ node.children[i].type = "DIRECTORY"
       /\ node.children[i].name = path[1]
       /\ HasDirectory(node.children[i], Tail(path))

\* C15: with a non-empty include set, a directory the walk reaches and that
\* lies above a path matching the include set passes the include test; a
\* directory that no include pattern can reach, when every pattern has a
\* separator, is never entered and is not in the returned tree.
C15_IncludePrunesOnlyUnrelatedDirectories ==
  \A d \in Directories :
    wq.include_patterns # << >> =>
      /\ (IsNextEntry(d) /\ LeadsToIncluded(d)) => ~NotIncluded(d)
      /\ NoPatternReaches(d) =>
           /\ \A i \in 1..Len(stack) : stack[i].path # d
           /\ phase = "done" => ~HasDirectory(root_node, d)

\* include {src/**/*.py}: src and src/d1 are in the tree, d2 is not
C15_Witness ==
  /\ phase = "done"
  /\ wt = SourceTree
  /\ wq.include_patterns = << Pattern(FALSE, TRUE, FALSE, << "src", "**", "*.py" >>) >>
  /\ HasDirectory(root_node, << "src" >>)
  /\ ~HasDirectory(root_node, << "d2" >>)

RECURSIVE DescendantsFrom(_, _)
\* the nodes below a list of children, from its i-th child on
DescendantsFrom(children, i) ==
  IF i > Len(children) THEN << >>
  ELSE << children[i] >> \o DescendantsFrom(children[i].children, 1)
         \o DescendantsFrom(children, i + 1)

\* every node below node
Descendants(node) == DescendantsFrom(node.children, 1)

RECURSIVE SizeOfFiles(_)
\* the sizes of the File nodes of a list of nodes, added up
SizeOfFiles(nodes) ==
  IF nodes = << >> THEN 0
  ELSE (IF Head(nodes).type = "FILE" THEN Head(nodes).size ELSE 0) + SizeOfFiles(Tail(nodes))

\* how many nodes of the list have one of the types
CountOf(nodes, types) == Cardinality({ i \in 1..Len(nodes) : nodes[i].type \in types })

\* the counters of a Directory node agree with what lies below it
CountersAgree(node) ==
  /\ node.size = SizeOfFiles(Descendants(node))
  /\ node.file_count = CountOf(Descendants(node), { "FILE", "SYMLINK" })
  /\ node.dir_count = CountOf(Descendants(node), { "DIRECTORY" })

\* C16: in the returned tree every Directory's size is the sum of the sizes of
\* the Files below it, its file_count the number of Files and Symlinks below
\* it, its dir_count the number of Directories below it, and every Directory
\* but the root has a child.
C16_DirectoryCountersAgree ==
  phase = "done" =>
    /\ root_node.type = "DIRECTORY" => CountersAgree(root_node)
    /\ \A i \in 1..Len(Descendants(root_node)) :
         LET node == Descendants(root_node)[i]
         IN node.type = "DIRECTORY" => CountersAgree(node) /\ node.children # << >>

\* a tree with files below a kept directory was returned, its empty directory
\* left out
C16_Witness ==
  /\ phase = "done"
  /\ wt = DeepTree
  /\ root_node.size >= 2
  /\ root_node.dir_count >= 1
  /\ HasDirectory(root_node, << "d1" >>)
  /\ ~HasDirectory(root_node, << "empty" >>)

\* the nodes of the returned tree: its root and everything below it
DigestNodes == << root_node >> \o Descendants(root_node)

\* C17: no File node of the digest is larger than the query's max_file_size,
\* for a directory walk and for the single file of a blob URL alike.
C17_NoOversizeFileInDigest ==
  phase = "done" =>
    \A i \in 1..Len(DigestNodes) :
      DigestNodes[i].type = "FILE" => DigestNodes[i].size <= wq.max_file_size

\* the group of a File or Directory child: README files, other files, dot
\* files, directories, dot directories
OrderGroup(child) ==
  CASE child.type = "FILE" /\ IsReadme(Lower(child.name)) -> 0
    [] child.type = "FILE" /\ ~IsReadme(Lower(child.name)) /\ ~StartsWithDot(Lower(child.name)) -> 1
    [] child.type = "FILE" /\ StartsWithDot(Lower(child.name)) -> 2
    [] child.type = "DIRECTORY" /\ ~StartsWithDot(Lower(child.name)) -> 3
    [] OTHER -> 4

\* child a may stand before child b
InOrder(a, b) ==
  \/ OrderGroup(a) < OrderGroup(b)
  \/ OrderGroup(a) = OrderGroup(b) /\ Rank(Lower(a.name)) <= Rank(Lower(b.name))

\* the File and Directory children of a node stand in the order of the groups
ChildrenInOrder(node) ==
  \A i, j \in 1..Len(node.children) :
    (i < j /\ { node.children[i].type, node.children[j].type } \subseteq { "FILE", "DIRECTORY" })
      => InOrder(node.children[i], node.children[j])

\* C18: in every Directory of the returned tree any two children that are Files
\* or Directories stand in the order README files, other non-dot files, dot
\* files, non-dot directories, dot directories, and inside a group ascending by
\* lower-cased name.
C18_ChildrenSorted ==
  phase = "done" =>
    \A i \in 1..Len(DigestNodes) :
      DigestNodes[i].type = "DIRECTORY" => ChildrenInOrder(DigestNodes[i])

\* a returned directory whose README stands before its sub-directory
C18_Witness ==
  /\ phase = "done"
  /\ wt = CaseTree
  /\ \E i, j \in 1..Len(root_node.children) :
       /\ i < j
       /\ root_node.children[i].name = "README.md"
       /\ root_node.children[j].type = "DIRECTORY"
       /\ root_node.children[j].children # << >>

\* ------------------------------------------------------------ the token in git commands
\* A string that is put together from pieces is the sequence of its pieces.

\* the repository URL of the runs
CloneUrl(host) == << "https://", host, "/user/repo" >>

\* is_github_host
is_github_host(host) == host \in { "github.com", "github.example.com" }

\* create_authenticated_url: the token goes into the netloc of a GitHub URL
create_authenticated_url(host, token) ==
  IF ~(token # NoStr /\ is_github_host(host))
  THEN CloneUrl(host)
  ELSE << "https://", "x-oauth-basic", ":", token, "@", host, "/user/repo" >>

\* base64.b64encode(f"x-oauth-basic:{token}")
Basic(token) ==
  CASE token = "ghp_A" -> "eC1vYXV0aC1iYXNpYzpnaHBfQQ=="
    [] token = "ghp_B" -> "eC1vYXV0aC1iYXNpYzpnaHBfQg=="
    [] OTHER -> "eC1vYXV0aC1iYXNpYzo="

\* create_git_auth_header, split at "=" into the key and the value of `git config`
create_git_auth_header(token, host) ==
  << << "http.https://", host, "/.extraheader" >>, << "Authorization: Basic ", Basic(token) >> >>

\* the argument is a URL with a user name and a password
HasCredentials(arg) == Len(arg) = 7 /\ arg[5] = "@"

\* what a GitPython release that masks credentials makes of an argument
MaskCredentials(arg) ==
  IF HasCredentials(arg) THEN [ arg EXCEPT ![2] = "*****", ![4] = "*****" ] ELSE arg

RECURSIVE CommandLine(_, _)
\* the command line in the text of a GitCommandError
CommandLine(argv, masking) ==
  IF argv = << >> THEN << >>
  ELSE (IF masking THEN MaskCredentials(Head(argv)) ELSE Head(argv)) \o << " " >>
         \o CommandLine(Tail(argv), masking)

\* str(exc) of the GitCommandError of a failed command
GitCommandError(argv, masking) ==
  << "Cmd('git') failed due to: exit code(128)\n  cmdline: " >> \o CommandLine(argv, masking)
    \o << "\n  stderr: 'fatal: the command failed'" >>

\* the command lines clone_repo runs
LsRemoteCommand(host, token) ==
  << << "git" >>, << "ls-remote" >>, create_authenticated_url(host, token), << "HEAD" >> >>

CloneCommand(host, token, partial_clone) ==
  IF partial_clone
  THEN << << "git" >>, << "clone" >>, << "--single-branch" >>, << "--no-checkout" >>, << "--depth=1" >>,
          << "--filter=blob:none" >>, << "--sparse" >>,
          create_authenticated_url(host, token), << "/tmp/gitingest/1/user-repo" >> >>
  ELSE IF token # NoStr /\ is_github_host(host)
  THEN << << "git" >>, << "clone" >>, << "--single-branch" >>, << "--no-checkout" >>, << "--depth=1" >>,
          create_authenticated_url(host, token), << "/tmp/gitingest/1/user-repo" >> >>
  ELSE << << "git" >>, << "clone" >>, << "--single-branch" >>, << "--no-checkout" >>, << "--depth=1" >>,
          CloneUrl(host), << "/tmp/gitingest/1/user-repo" >> >>

ConfigCommand(host, token) == << << "git" >>, << "config" >> >> \o create_git_auth_header(token, host)

\* create_git_repo configures the header only for a token on a GitHub host
Configures(host, token) == token # NoStr /\ is_github_host(host)

\* a clone that fetches no blobs and checks out nothing but the root, whatever the subpath
partial_clone_Never(config) == FALSE

\* clone_repo line 57: a subpath other than "/" makes the clone partial
partial_clone(config) == config.subpath # "/"

\* one git step of clone_repo: its name, its arguments, and what it returned
Step(name, args, out) == [ step |-> name, args |-> args, out |-> out ]

\* run k raises an exception with the message
Raise(k, message) ==
  /\ msg' = [ msg EXCEPT ![k] = message ]
  /\ tpc' = [ tpc EXCEPT ![k] = "raised" ]

\* run k goes on to the step
Goto(k, step) ==
  /\ tpc' = [ tpc EXCEPT ![k] = step ]
  /\ UNCHANGED msg

\* run k issues the steps
Issue(k, steps) == issued' = [ issued EXCEPT ![k] = @ \o steps ]

\* the local variable commit of run k: what its resolve_commit returned
ResolvedCommit(k) ==
  LET at == { i \in 1..Len(issued[k]) : issued[k][i].step = "resolve" }
  IN IF at = {} THEN NoStr ELSE issued[k][CHOOSE i \in at : TRUE].out

\* clone_repo lines 80-83: check_repo_exists swallows the error of ls-remote
GitCheckRepoExists(k) ==
  /\ tpc[k] = "exists"
  /\ Issue(k, << Step("probe", << "HEAD" >>, NoStr) >>)
  /\ IF gitenv.failing = "exists"
     THEN Raise(k, << "Repository not found. Make sure it is public or that you have provided a valid token." >>)
     ELSE Goto(k, "resolve")
  /\ UNCHANGED << gitenv, tok, reqVars, walkVars, resVars, srv, gcVars >>

\* clone_repo line 86: resolve_commit, the error of _resolve_ref_to_sha
GitResolveCommit(k) ==
  /\ tpc[k] = "resolve"
  /\ IF gitenv.failing = "resolve"
     THEN /\ Issue(k, << Step("resolve", << "HEAD" >>, NoStr) >>)
          /\ Raise(k, << "Failed to resolve ", "HEAD", " in " >> \o CloneUrl(gitenv.host) \o << ":\n" >>
                        \o GitCommandError(LsRemoteCommand(gitenv.host, tok[k]), gitenv.masking))
     ELSE /\ Issue(k, << Step("resolve", << "HEAD" >>, gitenv.head) >>)
          /\ Goto(k, "clone")
  /\ UNCHANGED << gitenv, tok, reqVars, walkVars, resVars, srv, gcVars >>

\* clone_repo lines 91-116: git clone
GitClone(k) ==
  /\ tpc[k] = "clone"
  /\ Issue(k, << Step("clone", IF partial_clone(gitenv)
                               THEN << "--single-branch", "--no-checkout", "--depth=1",
                                       "--filter=blob:none", "--sparse" >>
                               ELSE << "--single-branch", "--no-checkout", "--depth=1" >>,
                      NoStr) >>)
  /\ IF gitenv.failing = "clone"
     THEN Raise(k, << "Git clone failed: " >>
                     \o GitCommandError(CloneCommand(gitenv.host, tok[k], partial_clone(gitenv)),
                                        gitenv.masking))
     ELSE Goto(k, IF partial_clone(gitenv) THEN "sparse" ELSE "post")
  /\ UNCHANGED << gitenv, tok, reqVars, walkVars, resVars, srv, gcVars >>

\* clone_repo lines 119-122 with checkout_partial_clone
GitCheckoutPartialClone(k) ==
  /\ tpc[k] = "sparse"
  /\ IF gitenv.failing = "config" /\ Configures(gitenv.host, tok[k])
     THEN /\ Raise(k, << "Failed to configure sparse-checkout: " >>
                        \o GitCommandError(ConfigCommand(gitenv.host, tok[k]), gitenv.masking))
          /\ UNCHANGED issued
     ELSE /\ Issue(k, << Step("sparse-checkout", << "set", "src" >>, NoStr) >>)
          /\ IF gitenv.failing = "sparse"
             THEN Raise(k, << "Failed to configure sparse-checkout: " >>
                             \o GitCommandError(<< << "git" >>, << "sparse-checkout" >>, << "set" >>,
                                                   << "src" >> >>, gitenv.masking))
             ELSE Goto(k, "post")
  /\ UNCHANGED << gitenv, tok, reqVars, walkVars, resVars, srv, gcVars >>

\* the git commands of _perform_post_clone_operations, lines 163-173
PostCloneSteps(commit_sha, include_submodules) ==
  << Step("fetch", << "--depth=1", "origin", commit_sha >>, NoStr),
     Step("checkout", << commit_sha >>, NoStr) >>
  \o (IF include_submodules
      THEN << Step("submodule", << "update", "--init", "--recursive", "--depth=1" >>, NoStr) >>
      ELSE << >>)

\* clone_repo line 125 with _perform_post_clone_operations: the commands run
\* one after the other until one of them fails
GitPostClone(k) ==
  /\ tpc[k] = "post"
  /\ LET steps == PostCloneSteps(ResolvedCommit(k), gitenv.include_submodules)
         failed == { i \in 1..Len(steps) : steps[i].step = gitenv.failing }
     IN IF gitenv.failing = "config" /\ Configures(gitenv.host, tok[k])
        THEN /\ Raise(k, << "Git operation failed: " >>
                           \o GitCommandError(ConfigCommand(gitenv.host, tok[k]), gitenv.masking))
             /\ UNCHANGED issued
        ELSE IF failed # {}
        THEN LET i == CHOOSE j \in failed : TRUE
             IN /\ Issue(k, SubSeq(steps, 1, i))
                /\ Raise(k, << "Git operation failed: " >>
                              \o GitCommandError(<< << "git" >>, << steps[i].step >> >>
                                                   \o [ a \in 1..Len(steps[i].args) |-> << steps[i].args[a] >> ],
                                                 gitenv.masking))
        ELSE /\ Issue(k, steps)
             /\ Goto(k, "returned")
  /\ UNCHANGED << gitenv, tok, reqVars, walkVars, resVars, srv, gcVars >>

\* the tokens of the runs
Tokens == { NoStr, "ghp_A", "ghp_B" }

\* the hosts, the failing command, with and without masking by the library
GitEnvs ==
  [ host : { "github.com", "gitlab.com" },
    failing : { "none", "exists", "resolve", "clone", "sparse", "config", "fetch", "checkout",
                "submodule" },
    masking : BOOLEAN,
    subpath : { "/", "/src" },
    include_submodules : BOOLEAN,
    head : { ShaHead, ShaA } ]

InitToken ==
  /\ remote \in LifecycleRemotes
  /\ InitRequests
  /\ NoWalk
  /\ lines = << >>
  /\ sha = "idle"
  /\ gitenv \in GitEnvs
  /\ tok \in [ Runs -> Tokens ]
  /\ tpc = [ k \in Runs |-> "exists" ]
  /\ msg = [ k \in Runs |-> << >> ]
  /\ issued = [ k \in Runs |-> << >> ]
  /\ srv = NoServer
  /\ NoCleanup

NextToken ==
  \E k \in Runs :
    \/ GitCheckRepoExists(k) \/ GitResolveCommit(k) \/ GitClone(k)
    \/ GitCheckoutPartialClone(k) \/ GitPostClone(k)

SpecToken == InitToken /\ [][NextToken]_vars

\* C19: the token is in no message, and two runs that differ only in the value
\* of the token raise the same message.
C19_MessagesIndependentOfToken ==
  /\ \A k \in Runs :
       tok[k] # NoStr => \A i \in 1..Len(msg[k]) : msg[k][i] # tok[k]
  /\ (tok[1] # NoStr /\ tok[2] # NoStr /\ tpc[1] = "raised" /\ tpc[2] = "raised")
       => msg[1] = msg[2]

\* ------------------------------------------------------------ process_query
\* process_query returns the response
Respond(kind, error) == [ srv EXCEPT !.pc = "returned", !.response = kind, !.error = error ]

\* process_query lets the exception through to its caller
Propagate(error) == [ srv EXCEPT !.pc = "raised", !.error = error ]

\* lines 267-279: parse_remote_repo, the size cap, the pattern sets
ServerParse ==
  /\ srv.pc = "parse"
  /\ LET res == _parse_remote_repo(srv.input_text, remote, 1)
         merged == process_patterns(IF srv.pattern_type = "exclude" THEN { srv.pattern } ELSE {},
                                    IF srv.pattern_type = "include" THEN { srv.pattern } ELSE {})
     IN srv' = IF ~res.ok
               THEN Respond("error", res.err)
               ELSE [ srv EXCEPT !.pc = "cache",
                                 !.query = [ res.query EXCEPT
                                               !.ignore_patterns = merged.ignore_patterns,
                                               !.include_patterns = merged.include_patterns ] ]
  /\ UNCHANGED << reqVars, walkVars, resVars, tokVars, gcVars >>

\* generate_s3_file_path: the key is made of the hostname of the URL, the
\* owner, the repository, the commit, a hash of the sorted include and exclude
\* sets and a hash of the subpath; the hashes keep different inputs apart
generate_s3_file_path(q) ==
  [ hostname |-> q.url[1], user_name |-> q.user_name, repo_name |-> q.repo_name,
    commit |-> q.commit,
    patterns_hash |-> << q.include_patterns, q.ignore_patterns >>,
    subpath_hash |-> q.subpath ]

\* what the digest of a request is made from: the repository at its commit,
\* the subpath, the pattern sets and the size cap of line 275
DigestInputs(request) ==
  [ hostname |-> request.query.url[1], user_name |-> request.query.user_name,
    repo_name |-> request.query.repo_name, commit |-> request.query.commit,
    subpath |-> request.query.subpath,
    include_patterns |-> request.query.include_patterns,
    ignore_patterns |-> request.query.ignore_patterns,
    max_file_size |-> request.max_file_size * 1024 ]

\* an object of the bucket: its key and what its content was made from
S3Object(request) ==
  [ key |-> generate_s3_file_path(request.query), digest |-> DigestInputs(request) ]

\* check_s3_object_exists
check_s3_object_exists(bucket, key) == \E object \in bucket : object.key = key

\* upload_to_s3: the object replaces the one stored under the same key
upload_to_s3(bucket, object) ==
  { other \in bucket : other.key # object.key } \cup { object }

\* a cache check whose exception is not caught
OnCacheError_Propagate(request) == [ request EXCEPT !.pc = "raised", !.error = "S3Error" ]

\* _check_s3_cache lines 131-136: the exception is logged, the caller goes on
OnCacheError(request) == [ request EXCEPT !.pc = "clone" ]

\* lines 281-291 with _check_s3_cache: the commit is resolved, the object is
\* looked up; a hit is returned, everything else leads to the clone
ServerCheckCache ==
  /\ srv.pc = "cache"
  /\ IF ~srv.s3_enabled
     THEN srv' = [ srv EXCEPT !.pc = "clone", !.cache = "disabled" ]
     ELSE \E resolved \in BOOLEAN, answered \in BOOLEAN :
            LET resolved_sha == resolve_commit(srv.query, remote)
                request == [ srv EXCEPT !.query.commit = resolved_sha ]
                s3_file_path == generate_s3_file_path(request.query)
            IN srv' =
                 IF ~resolved \/ resolved_sha = NoStr
                 THEN OnCacheError([ srv EXCEPT !.cache = "error" ])
                 ELSE IF ~answered
                 THEN OnCacheError([ request EXCEPT !.cache = "error" ])
                 ELSE IF check_s3_object_exists(srv.bucket, s3_file_path)
                 THEN [ request EXCEPT !.pc = "returned", !.cache = "hit",
                                       !.response = "cached",
                                       !.served = { object.digest : object \in
                                                      { o \in srv.bucket : o.key = s3_file_path } } ]
                 ELSE [ request EXCEPT !.pc = "clone", !.cache = "miss" ]
  /\ UNCHANGED << reqVars, walkVars, resVars, tokVars, gcVars >>

\* lines 293-294: clone_repo; its exceptions leave process_query
ServerClone ==
  /\ srv.pc = "clone"
  /\ \E cloneOk \in BOOLEAN :
       LET request == [ srv EXCEPT !.cloned = TRUE, !.scratch = TRUE ]
       IN srv' = IF cloneOk /\ check_repo_exists(srv.query, remote) /\ RefResolves(srv.query, remote)
                 THEN [ request EXCEPT !.pc = "check" ]
                 ELSE [ request EXCEPT !.pc = "raised", !.error = "CloneError" ]
  /\ UNCHANGED << reqVars, walkVars, resVars, tokVars, gcVars >>

\* lines 298-301: the commit must be known by now
ServerCheckCommit ==
  /\ srv.pc = "check"
  /\ srv' = IF srv.query.commit = NoStr
            THEN Propagate("Unexpected error: no commit hash found")
            ELSE [ srv EXCEPT !.pc = "ingest" ]
  /\ UNCHANGED << reqVars, walkVars, resVars, tokVars, gcVars >>

\* lines 303-311: ingest_query and _store_digest_content; on an exception
\* _cleanup_repository, which may fail to remove the directory, and an error response
ServerIngest ==
  /\ srv.pc = "ingest"
  /\ \E ingested \in BOOLEAN, removed \in BOOLEAN :
       srv' = IF ingested
              THEN [ srv EXCEPT !.pc = "respond", !.stored = TRUE,
                                !.bucket = IF srv.s3_enabled
                                           THEN upload_to_s3(srv.bucket, S3Object(srv))
                                           ELSE srv.bucket ]
              ELSE [ Respond("error", "IngestError") EXCEPT !.scratch = ~removed ]
  /\ UNCHANGED << reqVars, walkVars, resVars, tokVars, gcVars >>

\* lines 313-342: the digest URL, _cleanup_repository, the success response
ServerRespond ==
  /\ srv.pc = "respond"
  /\ \E removed \in BOOLEAN :
       srv' = IF srv.s3_enabled /\ ~srv.stored
              THEN Propagate("S3 is enabled but no S3 URL was generated")
              ELSE [ Respond("success", NoStr) EXCEPT !.scratch = ~removed ]
  /\ UNCHANGED << reqVars, walkVars, resVars, tokVars, gcVars >>

\* the requests: URL shapes, size caps in kB, a pattern of either type
ServerInputs == { RepoUrl, RepoUrl \o << "tree", "main", "src" >>, RepoUrl \o << "tree", "v1" >>,
                  RepoUrl \o << "tree", ShaA, "src" >>, << "ftp:", "github.com", "user", "repo" >> }

ServerSizes == { 1, 2 }

ServerPatterns == { "", "*.py", "*.py;rm -rf" }

ServerRemotes ==
  { RemoteEnv({ << "v1" >> }, { << "main" >> }, FALSE, FALSE, { "github.com" }),
    RemoteEnv({ << "v1" >> }, { << "main" >> }, FALSE, FALSE, {}) }

\* the number of requests the server answers one after the other
MaxServed == 2

\* the next request reaches process_query; the bucket is what the earlier ones left
ServerNextRequest ==
  /\ srv.pc \in { "returned", "raised" }
  /\ srv.count < MaxServed
  /\ \E input_text \in ServerInputs, max_file_size \in ServerSizes,
        pattern_type \in { "include", "exclude" }, pattern \in ServerPatterns :
       srv' = [ ServerRequest(input_text, max_file_size, pattern_type, pattern, srv.s3_enabled)
                  EXCEPT !.bucket = srv.bucket, !.count = srv.count + 1 ]
  /\ UNCHANGED << reqVars, walkVars, resVars, tokVars, gcVars >>

InitServer ==
  /\ remote \in ServerRemotes
  /\ InitRequests
  /\ NoWalk
  /\ lines = << >>
  /\ sha = "idle"
  /\ NoRuns
  /\ NoCleanup
  /\ \E input_text \in ServerInputs, max_file_size \in ServerSizes,
        pattern_type \in { "include", "exclude" }, pattern \in ServerPatterns,
        s3_enabled \in BOOLEAN :
       srv = ServerRequest(input_text, max_file_size, pattern_type, pattern, s3_enabled)

NextServer ==
  \/ ServerParse \/ ServerCheckCache \/ ServerClone
  \/ ServerCheckCommit \/ ServerIngest \/ ServerRespond \/ ServerNextRequest

SpecServer == InitServer /\ [][NextServer]_vars

C21_CachedDigestIsFreshDigest ==
  srv.cache = "hit" => srv.served = { DigestInputs(srv) }

\* C24: once clone_repo has returned, the commit of the query is set, and no
\* request ends with 'Unexpected error: no commit hash found'.
C24_CommitSetAfterClone ==
  /\ srv.pc \in { "check", "ingest", "respond" } => srv.query.commit # NoStr
  /\ srv.error # "Unexpected error: no commit hash found"

\* C25: a request whose body failed or was cancelled leaves the context
\* manager with that failure, also when the removal of the scratch directory
\* fails: the error the caller receives is the one raised in the body.
C25_OriginalErrorSurvivesCleanup ==
  [][ \A r \in Requests :
        (pc[r] = "exit" /\ err[r] # NoStr /\ pc'[r] = "raised") => err'[r] = err[r] ]_vars

\* the loop of the call has passed a file that the pattern sets and the
\* per-file cap let through and that is not among the children: _process_file
\* refused it because of MAX_FILES or MAX_TOTAL_SIZE_BYTES
Refused(frame) ==
  \E p \in iterdir(frame.path) \ frame.pending :
    /\ wt[p].type = "FILE"
    /\ Eligible(p)
    /\ wt[p].size <= wq.max_file_size
    /\ \A i \in 1..Len(frame.node.children) : frame.node.children[i].name # p[Len(p)]

\* C26: once a file of a directory has been refused because of the file cap or
\* the total-size cap, no later entry of that directory is added to its node.
C26_NothingAddedAfterRefusal ==
  [][ \A k \in 0..Len(stack) - 1 :
        LET i == Len(stack) - k
            j == Len(stack') - k
        IN (phase = "walking" /\ phase' = "walking" /\ j >= 1 /\ stack'[j].path = stack[i].path
            /\ Refused(stack[i]))
             => stack'[j].node.children = stack[i].node.children ]_vars

\* C27: no Directory node of the returned tree is deeper than
\* MAX_DIRECTORY_DEPTH, no File or Symlink node is deeper than
\* MAX_DIRECTORY_DEPTH + 1, and no directory deeper than MAX_DIRECTORY_DEPTH is
\* ever enumerated.
C27_DepthBounded ==
  /\ phase = "done" =>
       \A i \in 1..Len(DigestNodes) :
         /\ DigestNodes[i].type = "DIRECTORY" => DigestNodes[i].depth <= MAX_DIRECTORY_DEPTH
         /\ DigestNodes[i].type \in { "FILE", "SYMLINK" }
              => DigestNodes[i].depth <= MAX_DIRECTORY_DEPTH + 1
  /\ \A k \in 1..Len(stack) : stack[k].node.depth <= MAX_DIRECTORY_DEPTH

\* a walk of the nested directories ended with a file at the deepest level that
\* is walked, while the working tree has a directory below that level
C27_Witness ==
  /\ phase = "done"
  /\ wt = DeepTree
  /\ \E i \in 1..Len(DigestNodes) :
       DigestNodes[i].type = "FILE" /\ DigestNodes[i].depth = MAX_DIRECTORY_DEPTH + 1
  /\ \E p \in DOMAIN wt : wt[p].type = "DIRECTORY" /\ Len(p) > MAX_DIRECTORY_DEPTH

RECURSIVE PathsBelow(_, _)
\* the relative paths of the nodes below node, which is at path
PathsBelow(node, path) ==
  UNION { { Append(path, node.children[i].name) }
            \cup PathsBelow(node.children[i], Append(path, node.children[i].name))
          : i \in 1..Len(node.children) }

\* the relative paths of the nodes of the returned tree
DigestPaths == { wq.subpath } \cup PathsBelow(root_node, wq.subpath)

\* C28: no node of the returned tree has a relative path that the exclude set
\* matches, and none lies below a directory that the exclude set matches,
\* whether or not the include set matches the path.
C28_NoExcludedPathInDigest ==
  phase = "done" =>
    \A p \in DigestPaths :
      \A k \in 1..Len(p) : ~Excluded(SubSeq(p, 1, k))

\* the commit tag name points to: the peeled commit of an annotated tag, else
\* the commit refs/tags/<name> names
TagCommit(name) == IF name \in AnnotatedTags THEN PeeledSha(name) ELSE TagSha(name)

\* C29: when the ref of the query is tag T of the remote, the commit the clone
\* step resolved is the commit T points to, whatever other tags the remote has.
C29_TagResolvesToItsCommit ==
  \A r \in Requests :
    (/\ IsRemoteQuery(r)
     /\ commit[r] # NoStr
     /\ query[r].commit = NoStr
     /\ query[r].tag \in remote.tags)
      => commit[r] = TagCommit(query[r].tag)

\* C30: whether the entry the walk has reached is excluded is the same for
\* every order in which the elements of the exclude set can be enumerated,
\* negated patterns included.
C30_ExclusionIndependentOfOrder ==
  \A sub_path \in DOMAIN wt :
    IsNextEntry(sub_path) =>
      \A order \in Enumerations(wq.ignore_patterns) :
        _should_exclude(sub_path, order) = _should_exclude(sub_path, wq.ignore_patterns)

\* the names of the steps in the order of the claim, for a configuration
StepOrder(config) ==
  << "probe", "resolve", "clone" >>
  \o (IF config.subpath # "/" THEN << "sparse-checkout" >> ELSE << >>)
  \o << "fetch", "checkout" >>
  \o (IF config.include_submodules THEN << "submodule" >> ELSE << >>)

\* the step whose failure the environment of the runs provokes
FailingStep ==
  CASE gitenv.failing = "exists" -> "probe"
    [] gitenv.failing = "sparse" -> "sparse-checkout"
    [] OTHER -> gitenv.failing

\* C23: the steps a run of clone_repo has issued are an initial part of: probe,
\* commit resolution, clone, sparse-checkout (iff the subpath is not "/", which
\* is when the clone has --filter=blob:none --sparse), fetch, checkout, submodule
\* update (iff include_submodules); nothing follows a step that failed, no clone
\* follows a failed probe, a run that returned issued them all, and the commit
\* fetched and checked out is the one resolved before the clone.
C23_CloneStepsInOrder ==
  \A k \in Runs :
    LET done == issued[k]
        order == StepOrder(gitenv)
    IN /\ Len(done) <= Len(order)
       /\ \A i \in 1..Len(done) :
            /\ done[i].step = order[i]
            /\ done[i].step = FailingStep => i = Len(done)
            /\ done[i].step = "clone" =>
                 (("--sparse" \in { done[i].args[a] : a \in 1..Len(done[i].args) }
                   /\ "--filter=blob:none" \in { done[i].args[a] : a \in 1..Len(done[i].args) })
                  <=> gitenv.subpath # "/")
            /\ done[i].step = "fetch" =>
                 done[i].args = << "--depth=1", "origin", done[2].out >> /\ done[2].out # NoStr
            /\ done[i].step = "checkout" => done[i].args = << done[2].out >>
       /\ tpc[k] = "returned" => Len(done) = Len(order)
       /\ tpc[k] = "raised" /\ gitenv.failing = "exists" => Len(done) = 1

\* a run for a subpath with submodules returned after all seven steps, and the
\* other run of the same configuration has got as far as its clone
C23_Witness ==
  /\ gitenv.subpath = "/src"
  /\ gitenv.include_submodules
  /\ tpc[1] = "returned"
  /\ Len(issued[1]) = 7
  /\ issued[1][7].step = "submodule"
  /\ issued[1][5].args[3] = gitenv.head
  /\ Len(issued[2]) = 3

\* ------------------------------------------------------------ the cleanup worker
\* DELETE_REPO_AFTER and the last instant of the clock, scaled down
DELETE_REPO_AFTER == 1
MaxClock == 3

\* the number of scans of the worker that are followed
MaxScans == 2

\* the stems of the first *.txt file of an entry: none, a digest, a file without "-"
TxtStems == { NoStr, "user-repo", "notes" }

\* filename.split("-", 1) joined with "/"
RepoUrlOf(stem) == IF stem = "user-repo" THEN "user/repo" ELSE NoStr

\* "-" in filename
HasDash(stem) == stem = "user-repo"

\* time passes
Tick ==
  /\ clock < MaxClock
  /\ clock' = clock + 1
  /\ UNCHANGED << folders, history, scan, reqVars, walkVars, resVars, tokVars, srv >>

\* a request makes its directory under the temp root, with or without a digest
\* file; the name of a directory is never used again
CreateFolder ==
  /\ \E f \in FolderNames, txt \in TxtStems, removable \in BOOLEAN :
       /\ ~folders[f].present
       /\ ~folders[f].removed
       /\ folders' = [ folders EXCEPT ![f] = Folder(TRUE, clock, txt, removable) ]
  /\ UNCHANGED << history, clock, scan, reqVars, walkVars, resVars, tokVars, srv >>

\* _remove_old_repositories lines 97-103: the scan starts, `now` is read once
StartScan ==
  /\ scan.pc \in { "off", "sleeping" }
  /\ scan.count < MaxScans
  /\ scan' = [ pc |-> "scanning", now |-> clock,
               pending |-> { f \in FolderNames : folders[f].present },
               seen |-> { f \in FolderNames : folders[f].present }, failed |-> FALSE,
               count |-> scan.count + 1 ]
  /\ UNCHANGED << folders, history, clock, reqVars, walkVars, resVars, tokVars, srv >>

\* one turn of the loop of lines 104-108 with _process_folder: an entry that is
\* not old enough is passed over; an old entry without a *.txt file is left as
\* it is; else the line is appended when the stem has a "-", and rmtree runs
ScanFolder ==
  /\ scan.pc = "scanning"
  /\ \E folder \in scan.pending :
       /\ scan' = [ scan EXCEPT !.pending = @ \ { folder } ]
       /\ IF scan.now - folders[folder].ctime <= DELETE_REPO_AFTER
          THEN UNCHANGED << folders, history >>
          ELSE IF folders[folder].txt = NoStr
          THEN UNCHANGED << folders, history >>
          ELSE /\ history' = IF HasDash(folders[folder].txt)
                             THEN Append(history, RepoUrlOf(folders[folder].txt))
                             ELSE history
               /\ folders' = IF folders[folder].removable
                             THEN [ folders EXCEPT ![folder].present = FALSE,
                                                   ![folder].removed = TRUE ]
                             ELSE folders
  /\ UNCHANGED << clock, reqVars, walkVars, resVars, tokVars, srv >>

\* lines 110-111: stat or iterdir raises OSError, the rest of the scan is given up
ScanError ==
  /\ scan.pc = "scanning"
  /\ scan.pending # {}
  /\ scan' = [ scan EXCEPT !.pc = "sleeping", !.pending = {}, !.failed = TRUE ]
  /\ UNCHANGED << folders, history, clock, reqVars, walkVars, resVars, tokVars, srv >>

\* line 113: the loop is over, the worker sleeps until the next scan
EndScan ==
  /\ scan.pc = "scanning"
  /\ scan.pending = {}
  /\ scan' = [ scan EXCEPT !.pc = "sleeping" ]
  /\ UNCHANGED << folders, history, clock, reqVars, walkVars, resVars, tokVars, srv >>

InitCleanup ==
  /\ remote \in LifecycleRemotes
  /\ InitRequests
  /\ NoWalk
  /\ lines = << >>
  /\ sha = "idle"
  /\ NoRuns
  /\ srv = NoServer
  /\ NoCleanup

NextCleanup == Tick \/ CreateFolder \/ StartScan \/ ScanFolder \/ ScanError \/ EndScan

SpecCleanup == InitCleanup /\ [][NextCleanup]_vars

\* the entry was there and older than the threshold when the scan began
OldAtScan(f) == f \in scan.seen /\ scan.now - folders[f].ctime > DELETE_REPO_AFTER

\* C22: after a scan that ran to its end, every entry that was older than the
\* threshold when the scan began, and that can be removed, is gone; an entry
\* that was not older is still there.
C22_ScanRemovesExactlyOldFolders ==
  (scan.pc = "sleeping" /\ ~scan.failed) =>
    \A f \in FolderNames :
      /\ (OldAtScan(f) /\ folders[f].removable) => ~folders[f].present
      /\ (f \in scan.seen /\ ~OldAtScan(f)) => folders[f].present

====
